---- MODULE Spec2Model ----
(***************************************************************************)
(* Archive Alchemist: ZIP and TAR handlers (src/handlers/zip_handler.py,   *)
(* src/handlers/tar_handler.py, src/handlers/base_handler.py) driven by    *)
(* the dispatcher of src/archive-alchemist.py.                             *)
(*                                                                         *)
(* Spec      one command per step on an archive held as its entry list     *)
(* SpecTxn   the same commands as sequences of filesystem operations       *)
(* SpecPoly  the polyglot rewriter on the bytes of a ZIP file              *)
(***************************************************************************)
EXTENDS Integers, Sequences, FiniteSets, TLC

VARIABLES fmt, arc, tmp, last,
          disk, txn,
          zfile, zlay, zlast,
          ofile, oext,
          call, ret

archVars == <<fmt, arc, tmp, last>>
txnVars == <<disk, txn>>
polyVars == <<zfile, zlay, zlast>>
orphVars == <<ofile, oext>>
unitVars == <<call, ret>>
vars == <<fmt, arc, tmp, last, disk, txn, zfile, zlay, zlast, ofile, oext,
          call, ret>>

(***************************************************************************)
(* Bounds                                                                  *)
(***************************************************************************)
MaxEntries == 2
MaxData == 2
MaxIndex == 2

(***************************************************************************)
(* Entry names are character sequences; payloads are byte sequences.       *)
(***************************************************************************)
P_a == <<"a">>
P_adir == <<"a", "/">>
P_ab == <<"a", "/", "b">>
P_acd == <<"a", "/", "c", "/", "d">>
P_z == <<"z">>
P_root == <<>>

RemovePaths == {P_a, P_adir, P_ab, P_z, P_root}
ReadPaths == {P_adir, P_z}

LinkTarget == <<3>>
ContentFileBytes == <<2>>

StartsWith(s, p) == Len(p) <= Len(s) /\ SubSeq(s, 1, Len(p)) = p

EndsWithSlash(s) == Len(s) > 0 /\ s[Len(s)] = "/"

RECURSIVE RStripSlash(_)
RStripSlash(s) ==
  IF EndsWithSlash(s) THEN RStripSlash(SubSeq(s, 1, Len(s) - 1)) ELSE s

(***************************************************************************)
(* Files.  A file holds the archive's entries in archive order.            *)
(***************************************************************************)
NoFile == [exists |-> FALSE, entries |-> <<>>, torn |-> FALSE]

File(es) == [exists |-> TRUE, entries |-> es, torn |-> FALSE]

\* A file left part-way through a write: no reader accepts it as an archive.
Torn(es) == [exists |-> TRUE, entries |-> es, torn |-> TRUE]

Entry(n, t, d, l) == [name |-> n, type |-> t, data |-> d, link |-> l]

NamesOf(es) == {es[i].name : i \in 1..Len(es)}

\* The archive of the recursive-remove scenario: a/, a/b, a/c/d, z.
Scenario6 ==
  << Entry(P_adir, "reg", <<>>, <<>>), Entry(P_ab, "reg", <<1>>, <<>>),
     Entry(P_acd, "reg", <<2>>, <<>>), Entry(P_z, "reg", <<1>>, <<>>) >>

(***************************************************************************)
(* Command arguments (argparse namespaces of archive-alchemist.py).        *)
(* content <<>> stands for an absent or empty --content; content_file is   *)
(* "none", "present" (a readable file holding ContentFileBytes) or         *)
(* "missing"; symlink / hardlink <<>> stand for an absent option.          *)
(* has_recursive: the namespace carries --recursive (remove_parser only);   *)
(* has_link_attrs: it carries symlink / hardlink / mode (the namespace      *)
(* TarHandler.append builds for replace does not).                          *)
(***************************************************************************)
Args(p, c, cf, sl, hl) ==
  [path |-> p, content |-> c, content_file |-> cf, symlink |-> sl,
   hardlink |-> hl, recursive |-> TRUE, has_recursive |-> FALSE, index |-> 0,
   require_content |-> TRUE, has_link_attrs |-> TRUE]

NoArgs == Args(<<>>, <<>>, "none", <<>>, <<>>)

AddRequests ==
  { Args(P_z, <<1>>, "none", <<>>, <<>>),
    Args(P_z, <<>>, "present", <<>>, <<>>),
    Args(P_z, <<1>>, "present", <<>>, <<>>),
    Args(P_z, <<>>, "none", <<>>, LinkTarget),
    Args(P_adir, <<>>, "none", <<>>, <<>>),
    Args(P_ab, <<1>>, "none", <<>>, <<>>),
    Args(P_ab, <<>>, "none", LinkTarget, <<>>) }

ReplaceRequests ==
  { Args(P_z, <<1>>, "none", <<>>, <<>>),
    Args(P_z, <<1>>, "present", <<>>, <<>>),
    Args(P_adir, <<>>, "none", <<>>, <<>>) }

AppendRequests ==
  { Args(P_z, <<2>>, "none", <<>>, <<>>),
    Args(P_z, <<2>>, "present", <<>>, <<>>),
    Args(P_z, <<>>, "none", <<>>, <<>>),
    Args(P_z, <<>>, "missing", <<>>, <<>>) }

BadContentSpec(a) == a.content # <<>> /\ a.content_file # "none"

get_content(a) ==
  IF a.content # <<>> /\ a.content_file # "none"
    THEN [ok |-> FALSE, bytes |-> <<>>]
  ELSE IF a.content_file = "missing"
    THEN [ok |-> FALSE, bytes |-> <<>>]
  ELSE IF a.content_file = "present"
    THEN [ok |-> TRUE, bytes |-> ContentFileBytes]
  ELSE [ok |-> TRUE, bytes |-> a.content]

(***************************************************************************)
(* Result of one handler call: the archive file, the temporary file, what  *)
(* was reported and what was written to standard output.                   *)
(***************************************************************************)
Res(f, t, rep, o) == [arc |-> f, tmp |-> t, report |-> rep, out |-> o]

(***************************************************************************)
(* ZipFile.infolist / TarFile.getmembers helpers used by the handlers.     *)
(***************************************************************************)
NamedIdx(es, n) == {i \in 1..Len(es) : es[i].name = n}

FirstNamed(es, n) == es[CHOOSE i \in NamedIdx(es, n) : \A j \in NamedIdx(es, n) : i <= j]

LastNamed(es, n) == es[CHOOSE i \in NamedIdx(es, n) : \A j \in NamedIdx(es, n) : j <= i]

RECURSIVE DropFirstIn(_, _)
DropFirstIn(es, names) ==
  IF es = <<>> THEN <<>>
  ELSE IF Head(es).name \in names THEN Tail(es)
  ELSE <<Head(es)>> \o DropFirstIn(Tail(es), names)

KeepNotIn(es, names) == SelectSeq(es, LAMBDA e : e.name \notin names)

is_recursive(a) == IF a.has_recursive THEN a.recursive ELSE TRUE

(***************************************************************************)
(* remove                                                                  *)
(***************************************************************************)
ZipRemoveMatch_NoRstrip(name, path, rec) ==
  \/ name = path
  \/ (rec /\ path = <<>>)
  \/ (rec /\ StartsWith(name, path \o <<"/">>))

ZipRemoveMatch_DirSlash(name, path, rec) ==
  \/ RStripSlash(name) = RStripSlash(path)
  \/ (rec /\ path = <<>>)
  \/ (rec /\ StartsWith(name, RStripSlash(path) \o <<"/">>))

ZipRemoveMatch_All(name, path, rec) ==
  \/ name = path
  \/ rec

ZipRemoveMatch(name, path, rec) ==
  \/ name = path
  \/ (rec /\ path = <<>>)
  \/ (rec /\ StartsWith(name, RStripSlash(path) \o <<"/">>))

TarRemoveMatch(name, path, rec) ==
  \/ name = path
  \/ (rec /\ StartsWith(name, RStripSlash(path) \o <<"/">>))

ZipHandler_remove(f, t, a) ==
  IF ~f.exists THEN Res(f, t, "noarchive", <<>>)
  ELSE LET entries == f.entries
           paths_to_remove ==
             {entries[i].name : i \in {j \in 1..Len(entries) :
                 ZipRemoveMatch(entries[j].name, a.path, is_recursive(a))}}
       IN  IF paths_to_remove = {} THEN Res(f, t, "notfound", <<>>)
           ELSE Res(File(KeepNotIn(entries, paths_to_remove)), NoFile, "ok", <<>>)

TarHandler_remove(f, t, a) ==
  IF ~f.exists THEN Res(f, t, "noarchive", <<>>)
  ELSE LET entries == f.entries
           paths_to_remove ==
             {entries[i].name : i \in {j \in 1..Len(entries) :
                 TarRemoveMatch(entries[j].name, a.path, is_recursive(a))}}
       IN  IF paths_to_remove = {} THEN Res(f, t, "notfound", <<>>)
           ELSE Res(File(KeepNotIn(entries, paths_to_remove)), NoFile, "ok", <<>>)

(***************************************************************************)
(* add                                                                     *)
(***************************************************************************)
ZipEntryFor(a) ==
  IF a.symlink # <<>> THEN Entry(a.path, "sym", a.symlink, <<>>)
  ELSE IF a.hardlink # <<>> THEN Entry(a.path, "reg", a.hardlink, <<>>)
  ELSE Entry(a.path, IF EndsWithSlash(a.path) THEN "dir" ELSE "reg",
             get_content(a).bytes, <<>>)

ZipHandler_add(f, t, a) ==
  LET base == IF f.exists THEN f.entries ELSE <<>>
  IN  IF ~a.has_link_attrs THEN Res(File(base), t, "raised", <<>>)
      ELSE IF a.symlink = <<>> /\ a.hardlink = <<>> /\ ~get_content(a).ok
        THEN Res(File(base), t, "error", <<>>)
      ELSE Res(File(Append(base, ZipEntryFor(a))), t, "ok", <<>>)

TarEntryFor(a) ==
  IF a.symlink # <<>> THEN Entry(a.path, "sym", <<>>, a.symlink)
  ELSE IF a.hardlink # <<>> THEN Entry(a.path, "lnk", <<>>, a.hardlink)
  ELSE Entry(a.path, "reg", get_content(a).bytes, <<>>)

TarHandler_add(f, t, a) ==
  LET base == IF f.exists THEN f.entries ELSE <<>>
      t2 == IF f.exists THEN NoFile ELSE t
  IN  IF ~a.has_link_attrs THEN Res(File(base), t2, "raised", <<>>)
      ELSE IF a.symlink = <<>> /\ a.hardlink = <<>> /\ ~get_content(a).ok
        THEN Res(File(base), t2, "error", <<>>)
      ELSE Res(File(Append(base, TarEntryFor(a))), t2, "ok", <<>>)

(***************************************************************************)
(* replace = remove, then add                                              *)
(***************************************************************************)
ZipHandler_replace(f, t, a) ==
  IF ~f.exists THEN Res(f, t, "noarchive", <<>>)
  ELSE LET r == ZipHandler_remove(f, t, a)
       IN  ZipHandler_add(r.arc, r.tmp, a)

TarHandler_replace(f, t, a) ==
  IF ~f.exists THEN Res(f, t, "noarchive", <<>>)
  ELSE LET r == TarHandler_remove(f, t, a)
       IN  TarHandler_add(r.arc, r.tmp, a)

(***************************************************************************)
(* append = read the payload, concatenate, replace                         *)
(***************************************************************************)
ZipAppendArgs(a, new_content) ==
  [a EXCEPT !.content = new_content, !.content_file = "none",
            !.require_content = FALSE, !.has_recursive = FALSE,
            !.has_link_attrs = TRUE]

ZipHandler_append(f, t, a) ==
  IF ~f.exists THEN Res(f, t, "noarchive", <<>>)
  ELSE IF ~get_content(a).ok THEN Res(f, t, "error", <<>>)
  ELSE IF a.content = <<>> /\ a.content_file = "none" /\ a.require_content
    THEN Res(f, t, "error", <<>>)
  ELSE IF a.path \notin NamesOf(f.entries) THEN Res(f, t, "notfound", <<>>)
  ELSE LET existing_content == LastNamed(f.entries, a.path).data
           new_content == existing_content \o get_content(a).bytes
       IN  ZipHandler_replace(f, t, ZipAppendArgs(a, new_content))

TarAppendArgs(a, new_content) ==
  [a EXCEPT !.content = new_content, !.content_file = "none",
            !.require_content = FALSE, !.has_recursive = FALSE,
            !.symlink = <<>>, !.hardlink = <<>>,
            !.has_link_attrs = FALSE]

TarHandler_append(f, t, a) ==
  IF ~f.exists THEN Res(f, t, "noarchive", <<>>)
  ELSE IF ~get_content(a).ok THEN Res(f, t, "error", <<>>)
  ELSE IF a.content = <<>> /\ a.content_file = "none" /\ a.require_content
    THEN Res(f, t, "error", <<>>)
  ELSE IF a.path \notin NamesOf(f.entries) THEN Res(f, t, "notfound", <<>>)
  ELSE IF FirstNamed(f.entries, a.path).type # "reg" THEN Res(f, t, "error", <<>>)
  ELSE IF LastNamed(f.entries, a.path).type # "reg" THEN Res(f, t, "raised", <<>>)
  ELSE LET existing_content == LastNamed(f.entries, a.path).data
           new_content == existing_content \o get_content(a).bytes
       IN  TarHandler_replace(f, t, TarAppendArgs(a, new_content))

(***************************************************************************)
(* modify (attributes only): every entry named path is dropped and one     *)
(* entry is written back at the end, carrying the payload the reader       *)
(* returns for the name (ZIP: the last one; TAR: the first member).        *)
(***************************************************************************)
ZipHandler_modify(f, t, a) ==
  IF ~f.exists THEN Res(f, t, "noarchive", <<>>)
  ELSE IF a.path \notin NamesOf(f.entries) THEN Res(f, t, "notfound", <<>>)
  ELSE LET orig_info == LastNamed(f.entries, a.path)
           entries == KeepNotIn(f.entries, {a.path})
       IN  Res(File(Append(entries, orig_info)), NoFile, "ok", <<>>)

TarHandler_modify(f, t, a) ==
  IF ~f.exists THEN Res(f, t, "noarchive", <<>>)
  ELSE IF a.path \notin NamesOf(f.entries) THEN Res(f, t, "notfound", <<>>)
  ELSE LET orig_member == FirstNamed(f.entries, a.path)
           entries == KeepNotIn(f.entries, {a.path})
       IN  Res(File(Append(entries, orig_member)), NoFile, "ok", <<>>)

(***************************************************************************)
(* read: the loop over the entries, entry i onwards                        *)
(***************************************************************************)
RECURSIVE ZipReadLoop(_, _, _, _)
ZipReadLoop(es, i, a, current_index) ==
  IF i > Len(es) THEN [found |-> FALSE, report |-> "notfound", out |-> <<>>]
  ELSE IF es[i].name # a.path THEN ZipReadLoop(es, i + 1, a, current_index)
  ELSE IF a.index # current_index THEN ZipReadLoop(es, i + 1, a, current_index + 1)
  ELSE IF EndsWithSlash(es[i].name)
    THEN [found |-> TRUE, report |-> "isdir", out |-> <<>>]
  ELSE [found |-> TRUE, report |-> "ok", out |-> <<es[i].data>>]

ZipHandler_read(f, t, a) ==
  IF ~f.exists THEN Res(f, t, "noarchive", <<>>)
  ELSE IF f.entries = <<>> THEN Res(f, t, "empty", <<>>)
  ELSE LET r == ZipReadLoop(f.entries, 1, a, 0)
       IN  Res(f, t, r.report, r.out)

TarWritten(e) == IF Len(e.link) > 0 THEN e.link ELSE e.data

RECURSIVE TarReadLoop(_, _, _, _, _)
TarReadLoop(es, i, a, current_index, acc) ==
  IF i > Len(es) THEN acc
  ELSE IF es[i].name # a.path THEN TarReadLoop(es, i + 1, a, current_index, acc)
  ELSE IF a.index # current_index
    THEN TarReadLoop(es, i + 1, a, current_index + 1, acc)
  ELSE IF es[i].type = "dir" \/ EndsWithSlash(es[i].name)
    THEN [found |-> TRUE, report |-> "isdir", out |-> acc.out]
  ELSE TarReadLoop(es, i + 1, a, current_index,
         [found |-> TRUE, report |-> "ok", out |-> Append(acc.out, TarWritten(es[i]))])

TarHandler_read(f, t, a) ==
  IF ~f.exists THEN Res(f, t, "noarchive", <<>>)
  ELSE IF f.entries = <<>> THEN Res(f, t, "empty", <<>>)
  ELSE LET r == TarReadLoop(f.entries, 1, a, 0,
                  [found |-> FALSE, report |-> "notfound", out |-> <<>>])
       IN  Res(f, t, r.report, r.out)

(***************************************************************************)
(* The dispatcher: ArchiveAlchemist.run picks the handler by archive type. *)
(***************************************************************************)
Formats == {"zip", "tar"}

Handle(op, f, t, a) ==
  IF fmt = "zip"
    THEN CASE op = "add" -> ZipHandler_add(f, t, a)
           [] op = "remove" -> ZipHandler_remove(f, t, a)
           [] op = "replace" -> ZipHandler_replace(f, t, a)
           [] op = "append" -> ZipHandler_append(f, t, a)
           [] op = "read" -> ZipHandler_read(f, t, a)
           [] op = "modify" -> ZipHandler_modify(f, t, a)
    ELSE CASE op = "add" -> TarHandler_add(f, t, a)
           [] op = "remove" -> TarHandler_remove(f, t, a)
           [] op = "replace" -> TarHandler_replace(f, t, a)
           [] op = "append" -> TarHandler_append(f, t, a)
           [] op = "read" -> TarHandler_read(f, t, a)
           [] op = "modify" -> TarHandler_modify(f, t, a)

Run(op, a) ==
  LET r == Handle(op, arc, tmp, a)
  IN  /\ arc' = r.arc
      /\ tmp' = r.tmp
      /\ last' = [op |-> op, args |-> a, pre |-> arc, pretmp |-> tmp,
                  again |-> IF last.op = op /\ last.args = a THEN last.report ELSE "no",
                  report |-> r.report, out |-> r.out]
      /\ UNCHANGED <<fmt, txnVars, polyVars, orphVars, unitVars>>

Fits(f) == ~f.exists \/ Len(f.entries) < MaxEntries

DataFits(f, a) ==
  \A i \in 1..Len(f.entries) :
     f.entries[i].name = a.path => Len(f.entries[i].data) < MaxData

DoAdd == \E a \in AddRequests : Fits(arc) /\ Run("add", a)

\* replace removes before it adds: the archive may shrink.
ReplaceFits(f, a) ==
  Fits(f) \/ Len(Handle("replace", f, NoFile, a).arc.entries) <= MaxEntries

DoReplace == \E a \in ReplaceRequests : ReplaceFits(arc, a) /\ Run("replace", a)

DoAppend == \E a \in AppendRequests : DataFits(arc, a) /\ Run("append", a)

DoRemove ==
  \E p \in RemovePaths, r \in BOOLEAN :
     Run("remove", [NoArgs EXCEPT !.path = p, !.recursive = r, !.has_recursive = TRUE])

DoRead ==
  \E p \in ReadPaths, i \in 0..MaxIndex :
     Run("read", [NoArgs EXCEPT !.path = p, !.index = i])

DoModify == \E p \in ReadPaths : Run("modify", [NoArgs EXCEPT !.path = p])

ArchInit ==
  /\ fmt \in Formats
  /\ arc \in {NoFile, File(Scenario6)}
  /\ tmp = NoFile
  /\ last = [op |-> "none", args |-> NoArgs, pre |-> NoFile, pretmp |-> NoFile,
             again |-> "no",
             report |-> "none", out |-> <<>>]

NoTxn == [status |-> "idle", op |-> "none", args |-> NoArgs, orig |-> NoFile,
          found_tmp |-> NoFile, plan |-> <<>>, renames |-> 0, pending |-> 0]

TxnIdle == /\ disk = [arc |-> NoFile, tmp |-> NoFile]
           /\ txn = NoTxn

NoBytes == [exists |-> FALSE, bytes |-> <<>>]

NoLayout == [kind |-> "none", lfh |-> <<>>, cdh |-> <<>>, eocd |-> 0, rounds |-> 0]

NoPoly == [op |-> "none", P |-> <<>>, pre |-> NoBytes, prelay |-> NoLayout,
           eocd |-> 0 - 1, report |-> "none"]

PolyIdle == /\ zfile = NoBytes
            /\ zlay = NoLayout
            /\ zlast = NoPoly

NoScan == [exists |-> FALSE, lfhs |-> <<>>, main |-> <<>>, hidden |-> <<>>,
           orphaned_mode |-> FALSE]

NoExt == [opened |-> FALSE, parsed_lfhs |-> <<>>, parsed_cdhs |-> <<>>,
          extended_infolist |-> <<>>, names |-> <<>>, listed |-> FALSE]

OrphIdle == /\ ofile = NoScan
            /\ oext = NoExt

NoCall == [fn |-> "none"]

UnitIdle == /\ call = NoCall
            /\ ret = NoCall

Init == ArchInit /\ TxnIdle /\ PolyIdle /\ OrphIdle /\ UnitIdle

Next ==
  \/ DoAdd
  \/ DoReplace
  \/ DoAppend
  \/ DoRemove
  \/ DoRead
  \/ DoModify

Spec == Init /\ [][Next]_vars

(***************************************************************************)
(* SpecTxn: one mutating command as the sequence of file-system calls it   *)
(* makes on the archive path and on path + ".tmp".  A command may be       *)
(* interrupted between any two calls.                                      *)
(***************************************************************************)
Step(k, f) == [k |-> k, f |-> f]

\* Write the new archive to path + ".tmp", os.remove(path), os.rename(tmp, path).
TmpCommit(g) ==
  << Step("create_tmp", Torn(<<>>)), Step("close_tmp", g),
     Step("os_remove", NoFile), Step("os_rename", g) >>

\* Write into the archive path itself: zipfile mode "a"/"w", open(path, "wb").
InPlace(partial, g) == << Step("write", partial), Step("close", g) >>

RemovePlan(f, a) ==
  LET r == Handle("remove", f, NoFile, a)
  IN  IF r.report = "ok" THEN TmpCommit(r.arc) ELSE <<>>

AddPlan(f, a) ==
  LET r == Handle("add", f, NoFile, a)
  IN  IF ~f.exists THEN InPlace(Torn(<<>>), r.arc)
      ELSE IF fmt = "tar" THEN TmpCommit(r.arc)
      ELSE IF r.report = "ok" THEN InPlace(Torn(f.entries), r.arc)
      ELSE <<>>

ReplacePlan(f, a) ==
  IF ~f.exists THEN <<>>
  ELSE RemovePlan(f, a) \o AddPlan(Handle("remove", f, NoFile, a).arc, a)

AppendPlan(f, a) ==
  LET r == Handle("append", f, NoFile, a)
  IN  IF r.report \in {"ok", "raised"} /\ r.arc # f
        THEN LET existing_content == LastNamed(f.entries, a.path).data
                 new_content == existing_content \o get_content(a).bytes
             IN  ReplacePlan(f, IF fmt = "zip" THEN ZipAppendArgs(a, new_content)
                                               ELSE TarAppendArgs(a, new_content))
        ELSE <<>>

ModifyPlan(f, a) ==
  LET r == Handle("modify", f, NoFile, a)
  IN  IF r.report = "ok" THEN TmpCommit(r.arc) ELSE <<>>

\* polyglot exists on the ZIP handler only; it reads the archive, then
\* reopens the archive path for writing and writes the result there.
PolyglotPlan(f, a) ==
  IF fmt # "zip" \/ ~get_content(a).ok THEN <<>>
  ELSE IF ~f.exists THEN InPlace(Torn(<<>>), File(<<>>))
  ELSE IF f.entries = <<>> THEN <<>>
  ELSE InPlace(Torn(<<>>), f)

Plan(op, f, a) ==
  CASE op = "add" -> AddPlan(f, a)
    [] op = "remove" -> RemovePlan(f, a)
    [] op = "replace" -> ReplacePlan(f, a)
    [] op = "append" -> AppendPlan(f, a)
    [] op = "modify" -> ModifyPlan(f, a)
    [] op = "polyglot" -> PolyglotPlan(f, a)

Renames(plan) == Cardinality({i \in 1..Len(plan) : plan[i].k = "os_rename"})

TxnOps == {"add", "remove", "replace", "append", "modify", "polyglot"}

TxnRequests(op) ==
  CASE op = "add" -> AddRequests
    [] op = "replace" -> ReplaceRequests
    [] op = "append" -> AppendRequests
    [] op = "polyglot" -> {Args(<<>>, <<1>>, "none", <<>>, <<>>)}
    [] OTHER -> {[NoArgs EXCEPT !.path = q] : q \in {P_adir, P_z}}

\* Archives a command may find at the archive path.
TxnArchives ==
  { NoFile, File(<<>>), File(Scenario6), File(<<Scenario6[4]>>),
    File(<<Scenario6[4], Entry(P_z, "reg", <<2>>, <<>>)>>),
    File(<<Scenario6[2], Scenario6[4]>>) }

\* A command starts on an archive path that is absent or holds an archive.
TxnBegin ==
  /\ txn.status = "idle"
  /\ \E op \in TxnOps : \E a \in TxnRequests(op) :
       LET plan == Plan(op, disk.arc, a)
       IN  txn' = [status |-> IF plan = <<>> THEN "done" ELSE "running",
                   op |-> op, args |-> a, orig |-> disk.arc,
                   found_tmp |-> disk.tmp, plan |-> plan,
                   renames |-> Renames(plan), pending |-> Renames(plan)]
  /\ UNCHANGED <<disk, archVars, polyVars, orphVars, unitVars>>

Advance(k) ==
  /\ txn.status = "running"
  /\ Head(txn.plan).k = k
  /\ txn' = [txn EXCEPT !.plan = Tail(txn.plan),
                        !.status = IF Tail(txn.plan) = <<>> THEN "done" ELSE "running",
                        !.pending = IF k = "os_rename" THEN @ - 1 ELSE @]
  /\ UNCHANGED <<archVars, polyVars, orphVars, unitVars>>

\* a file opened in mode "a": what it held stays in front of what is written
OpenForWrite_Append(existing) == Torn(existing.entries)

\* zipfile.ZipFile(tmp, "w") and tarfile.open(tmp, "w"): whatever the path
\* held is truncated
OpenForWrite(existing) == Torn(<<>>)

\* the file once g has been written to the opened file and it is closed
Written(opened, g) ==
  [exists |-> TRUE, entries |-> opened.entries \o g.entries, torn |-> g.torn]

TxnCreateTmp ==
  Advance("create_tmp") /\ disk' = [disk EXCEPT !.tmp = OpenForWrite(disk.tmp)]

TxnCloseTmp ==
  Advance("close_tmp") /\ disk' = [disk EXCEPT !.tmp = Written(disk.tmp, Head(txn.plan).f)]

TxnOsRemove == Advance("os_remove") /\ disk' = [disk EXCEPT !.arc = NoFile]

TxnOsRename == Advance("os_rename") /\ disk' = [arc |-> disk.tmp, tmp |-> NoFile]

TxnWrite == Advance("write") /\ disk' = [disk EXCEPT !.arc = Head(txn.plan).f]

TxnClose == Advance("close") /\ disk' = [disk EXCEPT !.arc = Head(txn.plan).f]

\* The process dies (or a call raises outside every handler) between two calls.
TxnInterrupt ==
  /\ txn.status = "running"
  /\ txn' = [txn EXCEPT !.status = "interrupted", !.plan = <<>>]
  /\ UNCHANGED <<disk, archVars, polyVars, orphVars, unitVars>>

\* the temp file being written belongs to TarHandler.add, whose finally
\* block closes and commits whatever was written
InTarAdd ==
  fmt = "tar" /\ txn.op \in {"add", "replace", "append"} /\ txn.pending = 1

\* A call raises while <archive>.tmp is being written (a payload that cannot
\* be read, a full disk).  The with blocks close the temp file and the
\* exception leaves the handler; TarHandler.add runs its finally block, which
\* fails on the unbound archive when the copy loop raised and otherwise
\* removes the original and renames the temp file over it.
TxnRaise ==
  /\ txn.status = "running"
  /\ Head(txn.plan).k = "close_tmp"
  /\ txn' = [txn EXCEPT !.status = "failed", !.plan = <<>>]
  /\ \/ disk' = disk
     \/ /\ InTarAdd
        /\ disk' = [arc |-> Torn(disk.arc.entries), tmp |-> NoFile]
  /\ UNCHANGED <<archVars, polyVars, orphVars, unitVars>>

ArchIdle ==
  /\ fmt \in Formats
  /\ arc = NoFile
  /\ tmp = NoFile
  /\ last = [op |-> "none", args |-> NoArgs, pre |-> NoFile, pretmp |-> NoFile,
             again |-> "no", report |-> "none", out |-> <<>>]

\* <archive>.tmp as an earlier killed run can leave it: part-written, or
\* complete and not yet renamed
StaleEntry == Entry(<<"s">>, "reg", <<7>>, <<>>)

StaleTmps == {Torn(<<StaleEntry>>), File(<<StaleEntry>>)}

TxnInit ==
  /\ ArchIdle
  /\ disk \in {[arc |-> f, tmp |-> t] : f \in TxnArchives, t \in {NoFile} \cup StaleTmps}
  /\ txn = NoTxn
  /\ PolyIdle
  /\ OrphIdle
  /\ UnitIdle

TxnNext ==
  \/ TxnBegin
  \/ TxnCreateTmp
  \/ TxnCloseTmp
  \/ TxnOsRemove
  \/ TxnOsRename
  \/ TxnWrite
  \/ TxnClose
  \/ TxnInterrupt
  \/ TxnRaise

SpecTxn == TxnInit /\ [][TxnNext]_vars

(***************************************************************************)
(* SpecPoly: the archive as bytes, and ZipHandler.polyglot on it.          *)
(* Offsets are 0-based as in the code; a byte is a number in 0..255.       *)
(***************************************************************************)
\* Bounds: entries of a written archive, polyglot runs on one file, and the
\* length of the long prefix (long enough to carry into the second offset byte).
MaxZipEntries == 2
MaxRounds == 2
BigPrefix == 300

LFHSig == <<80, 75, 3, 4>>
CDHSig == <<80, 75, 1, 2>>
EOCDSig == <<80, 75, 5, 6>>

Min(x, y) == IF x < y THEN x ELSE y

\* Python's s[a:b] for 0 <= a: clamped at the end of s.
Slice(s, a, b) ==
  IF a + 1 > Min(b, Len(s)) THEN <<>> ELSE SubSeq(s, a + 1, Min(b, Len(s)))

\* int.from_bytes(bs, byteorder='little'); the empty slice decodes to 0.
RECURSIVE FromBytes(_)
FromBytes(bs) == IF bs = <<>> THEN 0 ELSE bs[1] + 256 * FromBytes(Tail(bs))

\* n.to_bytes(w, byteorder='little')
ToBytes(n, w) == [i \in 1..w |-> (n \div (256 ^ (i - 1))) % 256]

Zeros(n) == [i \in 1..n |-> 0]

\* The records zipfile writes for a stored entry.  The fields polyglot never
\* reads (versions, flags, times, CRC, attributes) are written as zero.
MkLFH(e) ==
  LFHSig \o Zeros(14) \o ToBytes(Len(e.data), 4) \o ToBytes(Len(e.data), 4)
         \o ToBytes(Len(e.name), 2) \o Zeros(2) \o e.name

MkCDH(e, lfh_offset) ==
  CDHSig \o Zeros(16) \o ToBytes(Len(e.data), 4) \o ToBytes(Len(e.data), 4)
         \o ToBytes(Len(e.name), 2) \o Zeros(2) \o Zeros(2) \o Zeros(8)
         \o ToBytes(lfh_offset, 4) \o e.name

MkEOCD(n, cd_size, cd_offset) ==
  EOCDSig \o Zeros(4) \o ToBytes(n, 2) \o ToBytes(n, 2)
          \o ToBytes(cd_size, 4) \o ToBytes(cd_offset, 4) \o Zeros(2)

RECURSIVE LocalPart(_)
LocalPart(es) ==
  IF es = <<>> THEN <<>> ELSE MkLFH(Head(es)) \o Head(es).data \o LocalPart(Tail(es))

LfhOffsets(es) == [k \in 1..Len(es) |-> Len(LocalPart(SubSeq(es, 1, k - 1)))]

RECURSIVE CentralPart(_, _)
CentralPart(es, k) ==
  IF k > Len(es) THEN <<>>
  ELSE MkCDH(es[k], LfhOffsets(es)[k]) \o CentralPart(es, k + 1)

CdhOffsets(es) ==
  [k \in 1..Len(es) |-> Len(LocalPart(es)) + Len(CentralPart(SubSeq(es, 1, k - 1), 1))]

ZipBytes(es) ==
  LocalPart(es) \o CentralPart(es, 1)
     \o MkEOCD(Len(es), Len(CentralPart(es, 1)), Len(LocalPart(es)))

\* The search for the End of Central Directory record: the first hit of
\* range(len(zip_data) - 22, 0, -1), or -1 when the loop ends without one.
LocateEOCD(zip_data) ==
  LET hits == {i \in 1..(Len(zip_data) - 22) : Slice(zip_data, i, i + 4) = EOCDSig}
  IN  IF hits = {} THEN 0 - 1 ELSE CHOOSE i \in hits : \A j \in hits : j <= i

RECURSIVE PolyWalk_NoAdjust(_, _, _)
PolyWalk_NoAdjust(cd_data, pos, adjustment) ==
  IF pos >= Len(cd_data) THEN <<>>
  ELSE IF Slice(cd_data, pos, pos + 4) = CDHSig
    THEN LET filename_len == FromBytes(Slice(cd_data, pos + 28, pos + 30))
             extra_len == FromBytes(Slice(cd_data, pos + 30, pos + 32))
             comment_len == FromBytes(Slice(cd_data, pos + 32, pos + 34))
             step == 46 + filename_len + extra_len + comment_len
         IN  Slice(cd_data, pos, pos + step)
               \o PolyWalk_NoAdjust(cd_data, pos + step, adjustment)
  ELSE <<cd_data[pos + 1]>> \o PolyWalk_NoAdjust(cd_data, pos + 1, adjustment)

\* The walk over cd_data from pos: what it appends to the result.
RECURSIVE PolyWalk(_, _, _)
PolyWalk(cd_data, pos, adjustment) ==
  IF pos >= Len(cd_data) THEN <<>>
  ELSE IF Slice(cd_data, pos, pos + 4) = CDHSig
    THEN LET filename_len == FromBytes(Slice(cd_data, pos + 28, pos + 30))
             extra_len == FromBytes(Slice(cd_data, pos + 30, pos + 32))
             comment_len == FromBytes(Slice(cd_data, pos + 32, pos + 34))
             old_offset == FromBytes(Slice(cd_data, pos + 42, pos + 46))
             new_offset == old_offset + adjustment
             step == 46 + filename_len + extra_len + comment_len
         IN  Slice(cd_data, pos, pos + 42) \o ToBytes(new_offset, 4)
               \o Slice(cd_data, pos + 46, pos + step)
               \o PolyWalk(cd_data, pos + step, adjustment)
  ELSE <<cd_data[pos + 1]>> \o PolyWalk(cd_data, pos + 1, adjustment)

PRes(f, e, rep) == [file |-> f, eocd |-> e, report |-> rep]

ZipHandler_polyglot(f, a) ==
  IF ~get_content(a).ok THEN PRes(f, 0 - 1, "error")
  ELSE LET content_bytes == get_content(a).bytes
           zip_data == IF f.exists THEN f.bytes ELSE ZipBytes(<<>>)
           adjustment == Len(content_bytes)
           eocd_offset == LocateEOCD(zip_data)
           cd_offset == FromBytes(Slice(zip_data, eocd_offset + 16, eocd_offset + 20))
           cd_data == Slice(zip_data, cd_offset, eocd_offset)
           result == content_bytes
                       \o Slice(zip_data, 0, cd_offset)
                       \o PolyWalk(cd_data, 0, adjustment)
                       \o Slice(zip_data, eocd_offset, eocd_offset + 16)
                       \o ToBytes(cd_offset + adjustment, 4)
                       \o Slice(zip_data, eocd_offset + 20, Len(zip_data))
       IN  IF eocd_offset < 0
             THEN PRes([exists |-> TRUE, bytes |-> zip_data], eocd_offset, "noeocd")
             ELSE PRes([exists |-> TRUE, bytes |-> result], eocd_offset, "ok")

\* Archives the tool's writer produces, as entry lists (name and payload bytes).
PolyEntrySet ==
  { [name |-> <<97>>, data |-> <<>>],
    [name |-> <<98>>, data |-> <<7>>],
    [name |-> <<97, 47, 98>>, data |-> <<7, 7>>] }

PolyArchives == UNION {[1..n -> PolyEntrySet] : n \in 0..MaxZipEntries}

\* Files not written by the tool: pad, then arbitrary bytes where the EOCD
\* says the central directory is, then the EOCD.
CraftRegions ==
  { <<1, 2, 3>>,
    CDHSig,
    CDHSig \o Zeros(40),
    SubSeq(MkCDH([name |-> <<97, 97, 97>>, data |-> <<>>], 0), 1, 47),
    <<9>> \o MkCDH([name |-> <<97>>, data |-> <<>>], 0) }

Crafted(pad, region) == pad \o region \o MkEOCD(1, Len(region), Len(pad))

PolyPrefixes == {<<>>, <<65>>, [i \in 1..BigPrefix |-> 65]}

PolyRequests ==
  {Args(<<>>, P, "none", <<>>, <<>>) : P \in PolyPrefixes}
    \cup {Args(<<>>, <<65>>, "present", <<>>, <<>>)}

PolyAuthor ==
  /\ zlast.op = "none"
  /\ \E es \in PolyArchives :
       /\ zfile' = [exists |-> TRUE, bytes |-> ZipBytes(es)]
       /\ zlay' = [kind |-> "authored", lfh |-> LfhOffsets(es), cdh |-> CdhOffsets(es),
                   eocd |-> Len(LocalPart(es)) + Len(CentralPart(es, 1)), rounds |-> 0]
  /\ zlast' = [NoPoly EXCEPT !.op = "author"]
  /\ UNCHANGED <<archVars, txnVars, orphVars, unitVars>>

PolyCraft ==
  /\ zlast.op = "none"
  /\ \E pad \in {<<>>, <<0, 0>>} : \E region \in CraftRegions :
       /\ zfile' = [exists |-> TRUE, bytes |-> Crafted(pad, region)]
       /\ zlay' = [kind |-> "crafted", lfh |-> <<>>, cdh |-> <<>>,
                   eocd |-> Len(pad) + Len(region), rounds |-> 0]
  /\ zlast' = [NoPoly EXCEPT !.op = "craft"]
  /\ UNCHANGED <<archVars, txnVars, orphVars, unitVars>>

\* Where the records of the file lie once n bytes stand in front of it.
Shifted(lay, n) ==
  [lay EXCEPT !.lfh = [k \in 1..Len(lay.lfh) |-> lay.lfh[k] + n],
              !.cdh = [k \in 1..Len(lay.cdh) |-> lay.cdh[k] + n],
              !.eocd = @ + n]

PolyPolyglot ==
  /\ zlay.rounds < MaxRounds
  /\ \E a \in PolyRequests :
       LET r == ZipHandler_polyglot(zfile, a)
           lay == IF zfile.exists THEN zlay ELSE [NoLayout EXCEPT !.kind = "authored"]
       IN  /\ zfile' = r.file
           /\ zlay' = [(IF r.report = "ok" THEN Shifted(lay, Len(get_content(a).bytes))
                                           ELSE IF r.report = "error" THEN zlay ELSE lay)
                          EXCEPT !.rounds = zlay.rounds + 1]
           /\ zlast' = [op |-> "polyglot", P |-> get_content(a).bytes, pre |-> zfile,
                        prelay |-> zlay, eocd |-> r.eocd, report |-> r.report]
  /\ UNCHANGED <<archVars, txnVars, orphVars, unitVars>>

PolyInit == ArchIdle /\ fmt = "zip" /\ TxnIdle /\ PolyIdle /\ OrphIdle /\ UnitIdle

PolyNext ==
  \/ PolyAuthor
  \/ PolyCraft
  \/ PolyPolyglot

SpecPoly == PolyInit /\ [][PolyNext]_vars

(***************************************************************************)
(* Properties of Spec                                                      *)
(***************************************************************************)
ContentCommands == {"add", "replace", "append"}

\* C2: a command given both --content and --content-file leaves the archive
\* as it was: the same entries, and no archive file where none existed.
C2_BadContentSpecNoMutation ==
  (last.op \in ContentCommands /\ BadContentSpec(last.args)) => arc = last.pre

RemoveHit(name, p, rec) ==
  name = p \/ (rec /\ StartsWith(name, RStripSlash(p) \o <<"/">>))

RemoveExpected(es, p, rec) == SelectSeq(es, LAMBDA e : ~RemoveHit(e.name, p, rec))

RemoveMatches(es, p, rec) == \E i \in 1..Len(es) : RemoveHit(es[i].name, p, rec)

\* C6: remove with a non-empty path that matches an entry leaves exactly the
\* entries that neither equal the path nor (when recursive) lie under
\* path.rstrip('/') + '/', in their original order with their payloads.
C6_RemoveSemantics ==
  ( /\ last.op = "remove"
    /\ last.args.path # <<>>
    /\ last.pre.exists
    /\ RemoveMatches(last.pre.entries, last.args.path, last.args.recursive) )
  => ( /\ last.report = "ok"
       /\ arc = File(RemoveExpected(last.pre.entries, last.args.path,
                                    last.args.recursive)) )

C6_Witness ==
  /\ last.op = "remove"
  /\ last.args.recursive
  /\ last.args.path = P_adir
  /\ last.report = "ok"
  /\ \E i \in 1..Len(last.pre.entries) : last.pre.entries[i].name = P_ab
  /\ Len(arc.entries) >= 1
  /\ Len(arc.entries) + 2 <= Len(last.pre.entries)

\* C7 as stated: on the archive a/, a/b, a/c/d, z, "remove a" removes the
\* first three and "remove a --recursive 0" removes exactly the a/ entry.
C7_AsStated ==
  (last.op = "remove" /\ last.pre = File(Scenario6) /\ last.args.path = P_a)
  => arc.entries = IF last.args.recursive THEN <<Scenario6[4]>> ELSE Tail(Scenario6)

\* C7 amended: "remove a" removes a/, a/b, a/c/d and keeps z; non-recursive
\* removal is by exact name, so "remove a --recursive 0" finds nothing and
\* changes nothing, and "remove a/ --recursive 0" removes exactly a/.
C7_RecursiveRemoveScenario ==
  (last.op = "remove" /\ last.pre = File(Scenario6))
  => /\ (last.args.path = P_a /\ last.args.recursive)
          => arc.entries = <<Scenario6[4]>>
     /\ (last.args.path = P_a /\ ~last.args.recursive)
          => (last.report = "notfound" /\ arc = last.pre)
     /\ (last.args.path = P_adir /\ ~last.args.recursive)
          => arc.entries = Tail(Scenario6)

C7_Witness ==
  /\ last.op = "remove"
  /\ last.pre = File(Scenario6)
  /\ last.args.path = P_a
  /\ ~last.args.recursive
  /\ last.report = "notfound"

\* C8: a remove repeated immediately after the same remove on an existing
\* archive reports not found and leaves the archive and the temp path as
\* the first call left them.
C8_RemoveIdempotent ==
  (last.op = "remove" /\ last.again # "no" /\ last.pre.exists)
  => (last.report = "notfound" /\ arc = last.pre /\ tmp = last.pretmp)

C8_Witness ==
  /\ last.op = "remove"
  /\ last.again = "ok"
  /\ last.report = "notfound"
  /\ Len(arc.entries) >= 1

\* C9: after append(path, data), for each regular entry named path with
\* payload p beforehand, an entry named path with payload p ++ data exists.
C9_AppendConcatenates ==
  (last.op = "append" /\ last.pre.exists /\ get_content(last.args).ok)
  => \A i \in 1..Len(last.pre.entries) :
        (last.pre.entries[i].name = last.args.path /\ last.pre.entries[i].type = "reg")
        => \E j \in 1..Len(arc.entries) :
              /\ arc.entries[j].name = last.args.path
              /\ arc.entries[j].data = last.pre.entries[i].data \o get_content(last.args).bytes

RECURSIVE NthNamed(_, _, _)
NthNamed(es, n, k) ==
  IF es = <<>> THEN <<>>
  ELSE IF Head(es).name # n THEN NthNamed(Tail(es), n, k)
  ELSE IF k = 0 THEN <<Head(es)>>
  ELSE NthNamed(Tail(es), n, k - 1)

PayloadOf(e) == IF fmt = "tar" /\ Len(e.link) > 0 THEN e.link ELSE e.data

\* C10: read(path, index N) outputs the payload of the N-th entry named path
\* and of no other entry; with fewer than N+1 such entries it outputs nothing
\* and reports the entry as not found (an empty archive is reported as empty).
C10_ReadNth ==
  (last.op = "read" /\ last.pre.exists)
  => LET hit == NthNamed(last.pre.entries, last.args.path, last.args.index)
     IN  IF hit = <<>>
           THEN last.out = <<>> /\ last.report \in {"notfound", "empty"}
           ELSE ~EndsWithSlash(hit[1].name) => last.out = <<PayloadOf(hit[1])>>

(***************************************************************************)
(* Properties of SpecTxn                                                   *)
(***************************************************************************)
BeforeFinalRename == txn.renames > 0 /\ txn.pending > 0

\* C1: while a mutating command on an existing archive is running or has
\* been interrupted, and the rename that commits it has not happened, the
\* archive path holds the original archive: not missing, not torn, not changed.
C1_OriginalUntilRename ==
  (txn.status \in {"running", "interrupted"} /\ txn.orig.exists /\ BeforeFinalRename)
  => disk.arc = txn.orig

\* C19: when a command that writes <archive>.tmp (ZIP or TAR modify and
\* remove, TAR add on an existing archive) fails while the temp file is
\* being built or written, no <archive>.tmp is left behind.
C19_TempDeletedOnFailure ==
  txn.status = "failed" => ~disk.tmp.exists

\* the commands that go through <archive>.tmp
WritesTmp ==
  \/ txn.op \in {"modify", "remove"}
  \/ txn.op = "add" /\ fmt = "tar" /\ txn.orig.exists

\* C25: modify, remove and TAR add on an existing archive leave the archive
\* the command computes from the original alone, whether or not an
\* <archive>.tmp was there when the command started, and nothing of a
\* stale <archive>.tmp is in it.
C25_StaleTmpIgnored ==
  (txn.status = "done" /\ WritesTmp) =>
    /\ disk.arc = Handle(txn.op, txn.orig, NoFile, txn.args).arc
    /\ \A i \in 1 .. Len(disk.arc.entries) : disk.arc.entries[i] # StaleEntry

C25_Witness ==
  /\ txn.status = "done" /\ txn.op = "remove"
  /\ txn.found_tmp = Torn(<<StaleEntry>>)
  /\ txn.renames = 1
  /\ disk.arc # txn.orig
  /\ ~disk.tmp.exists

(***************************************************************************)
(* Properties of SpecPoly                                                  *)
(***************************************************************************)
U32At(bs, off) == FromBytes(Slice(bs, off, off + 4))

\* C3: polyglot with P on a ZIP the writer produced with at least one entry
\* adds len(P) to the EOCD's cd_offset and to every CDH's lfh_offset, so
\* that in the output each lfh_offset is the offset of the entry's LFH and
\* cd_offset is the offset of the first CDH.
C3_PolyglotOffsets ==
  (zlast.op = "polyglot" /\ zlast.report # "error"
     /\ zlast.prelay.kind = "authored" /\ Len(zlast.prelay.cdh) >= 1)
  => LET n == Len(zlast.P)
         Z == zlast.pre.bytes
         O == zfile.bytes
         lay == zlast.prelay
     IN  /\ zlast.report = "ok"
         /\ U32At(O, lay.eocd + n + 16) = U32At(Z, lay.eocd + 16) + n
         /\ U32At(O, lay.eocd + n + 16) = lay.cdh[1] + n
         /\ \A k \in 1..Len(lay.cdh) :
              /\ Slice(O, lay.cdh[k] + n, lay.cdh[k] + n + 4) = CDHSig
              /\ U32At(O, lay.cdh[k] + n + 42) = U32At(Z, lay.cdh[k] + 42) + n
              /\ U32At(O, lay.cdh[k] + n + 42) = lay.lfh[k] + n
              /\ Slice(O, lay.lfh[k] + n, lay.lfh[k] + n + 4) = LFHSig

C3_Witness ==
  /\ zlast.op = "polyglot"
  /\ zlast.report = "ok"
  /\ zlast.prelay.kind = "authored"
  /\ Len(zlast.prelay.cdh) = 2
  /\ Len(zlast.P) = BigPrefix
  /\ U32At(zfile.bytes, zlay.eocd + 16) > 255

\* The offsets of the CDH signatures the walk over zip[cd_offset..eocd) meets.
RECURSIVE RewrittenCDHs(_, _, _)
RewrittenCDHs(Z, pos, eocd) ==
  IF pos >= eocd THEN {}
  ELSE IF Slice(Z, pos, Min(pos + 4, eocd)) = CDHSig
    THEN {pos} \cup RewrittenCDHs(Z, pos + 46
                        + FromBytes(Slice(Z, pos + 28, Min(pos + 30, eocd)))
                        + FromBytes(Slice(Z, pos + 30, Min(pos + 32, eocd)))
                        + FromBytes(Slice(Z, pos + 32, Min(pos + 34, eocd))), eocd)
  ELSE RewrittenCDHs(Z, pos + 1, eocd)

\* C4: when polyglot locates an EOCD at or after the cd_offset it stores,
\* the output is P followed by as many bytes as the input had, equal to the
\* input everywhere but in the lfh_offset field of each rewritten CDH and
\* in the cd_offset field of the EOCD.
C4_PolyglotFrame ==
  (zlast.op = "polyglot" /\ zlast.report # "error" /\ zlast.eocd >= 0
     /\ zlast.eocd >= U32At(zlast.pre.bytes, zlast.eocd + 16))
  => LET n == Len(zlast.P)
         Z == zlast.pre.bytes
         O == zfile.bytes
         e == zlast.eocd
         patched == {e + 16 + d : d \in 0..3}
                      \cup UNION {{c + 42 + d : d \in 0..3} :
                                    c \in RewrittenCDHs(Z, U32At(Z, e + 16), e)}
     IN  /\ Len(O) = n + Len(Z)
         /\ Slice(O, 0, n) = zlast.P
         /\ \A i \in 0..(Len(Z) - 1) : i \notin patched => O[n + i + 1] = Z[i + 1]

\* C5: polyglot with P on a missing archive path, or on the empty ZIP (one
\* 22-byte EOCD), succeeds and leaves P followed by the empty ZIP whose
\* cd_offset is len(P).
C5_PolyglotOnEmpty ==
  (zlast.op = "polyglot" /\ zlast.report # "error"
     /\ (~zlast.pre.exists \/ zlast.pre.bytes = ZipBytes(<<>>)))
  => /\ zlast.report = "ok"
     /\ zfile.bytes = zlast.P \o MkEOCD(0, 0, Len(zlast.P))

(***************************************************************************)
(* SpecOrph: the extended ZIP reader (handlers/extended_zipfile.py).       *)
(* A file is the sequence of its PK records in file order: the local file  *)
(* headers, the central directory the EOCD points at, and the central      *)
(* directory headers hidden in the EOCD comment, as                        *)
(* tests/generate_orphaned_fh.py lays them out.  A record's offset is its  *)
(* position in that sequence.                                              *)
(***************************************************************************)
MaxLFH == 2
MaxHidden == 2
\* an offset past the end of every file, as 0x99999999 in the generator
Nowhere == MaxLFH + MaxLFH + MaxHidden

NoName == "None"
NoOffset == 0 - 1
NoExtra == <<0 - 1>>

LFHNames == {"n.txt", "o.txt"}

create_lfh(name) ==
  [sig_type |-> "LFH", filename |-> name,
   extra |-> IF name = "o.txt" THEN <<9, 9>> ELSE <<>>]

create_cdh(name, off, ex, attr, com) ==
  [sig_type |-> "CDH", filename |-> name, extra |-> ex,
   external_attr |-> attr, comment |-> com, lfh_offset |-> off]

\* the two shapes of hidden header: bare, and carrying extra and comment
HiddenCDH(off, k) ==
  IF k = 1 THEN create_cdh("h1.txt", off, <<>>, 33152, "")
           ELSE create_cdh("h2.txt", off, <<7, 7>>, 33188, "c")

HiddenOffsets == (0 .. (MaxLFH - 1)) \cup {Nowhere}

HiddenAlphabet == {HiddenCDH(o, k) : o \in HiddenOffsets, k \in {1, 2}}

SeqsUpTo(S, n) == UNION {[1 .. k -> S] : k \in 0 .. n}

RECURSIVE SortedSeq(_)
SortedSeq(S) ==
  IF S = {} THEN <<>>
  ELSE LET m == CHOOSE x \in S : \A y \in S : x <= y
       IN <<m>> \o SortedSeq(S \ {m})

\* the central directory of the archive: one header per referenced local
\* header; when mismatch holds the first header carries a name of its own
MainCD(lfhs, S, mismatch) ==
  LET offs == SortedSeq(S)
  IN [i \in 1 .. Len(offs) |->
        create_cdh(IF mismatch /\ i = 1 THEN "m.txt" ELSE lfhs[offs[i] + 1],
                   offs[i], <<>>, 33152, "")]

OrphFile(l, S, mm, h, om) ==
  [exists |-> TRUE, lfhs |-> l, main |-> MainCD(l, S, mm), hidden |-> h,
   orphaned_mode |-> om]

\* records in file order, each at its offset
RecordsOf(f) ==
  LET recs == [i \in 1 .. Len(f.lfhs) |-> create_lfh(f.lfhs[i])]
              \o f.main \o f.hidden
  IN [i \in 1 .. Len(recs) |-> [offset |-> i - 1, rec |-> recs[i]]]

find_all_pk_signatures(file_data) ==
  [i \in 1 .. Len(file_data) |->
     [offset |-> file_data[i].offset, sig_type |-> file_data[i].rec.sig_type]]

RecordAt(file_data, off) ==
  file_data[CHOOSE i \in 1 .. Len(file_data) : file_data[i].offset = off].rec

parse_lfh_with_zipfile(file_data, off) ==
  LET r == RecordAt(file_data, off)
  IN [offset |-> off, filename |-> r.filename, raw_extra |-> r.extra]

parse_cdh_with_zipfile(file_data, off) ==
  LET r == RecordAt(file_data, off)
  IN [offset |-> off, filename |-> r.filename, raw_extra |-> r.extra,
      external_attr |-> r.external_attr, comment |-> r.comment,
      lfh_offset |-> r.lfh_offset]

\* _parse_all_signatures: the signatures are visited in scan order
parse_all_signatures(file_data, kind) ==
  LET sigs == SelectSeq(find_all_pk_signatures(file_data),
                        LAMBDA s : s.sig_type = kind)
  IN [i \in 1 .. Len(sigs) |->
        IF kind = "LFH" THEN parse_lfh_with_zipfile(file_data, sigs[i].offset)
        ELSE parse_cdh_with_zipfile(file_data, sigs[i].offset)]

\* zipfile.ZipFile.infolist: the headers of the directory the EOCD names
infolist(f) ==
  [i \in 1 .. Len(f.main) |->
     [filename |-> f.main[i].filename, header_offset |-> f.main[i].lfh_offset,
      extra |-> f.main[i].extra, external_attr |-> f.main[i].external_attr,
      comment |-> f.main[i].comment]]

find_lfh_by_offset(parsed_lfhs, off) ==
  LET hits == {i \in 1 .. Len(parsed_lfhs) : parsed_lfhs[i].offset = off}
  IN IF hits = {} THEN 0 ELSE CHOOSE i \in hits : \A j \in hits : i <= j

create_extended_zipinfo_from_standard(info, parsed_lfhs) ==
  LET k == find_lfh_by_offset(parsed_lfhs, info.header_offset)
  IN [filename |-> info.filename, header_offset |-> info.header_offset,
      extra |-> info.extra, external_attr |-> info.external_attr,
      comment |-> info.comment,
      cdh_filename |-> info.filename, cdh_extra |-> NoExtra,
      source_cd_index |-> 0,
      lfh_filename |-> IF k = 0 THEN NoName ELSE parsed_lfhs[k].filename,
      lfh_offset |-> IF k = 0 THEN NoOffset ELSE parsed_lfhs[k].offset,
      is_orphaned_lfh |-> FALSE, is_orphaned_cdh |-> FALSE]

create_extended_zipinfo_from_lfh(lfh) ==
  [filename |-> lfh.filename, header_offset |-> lfh.offset,
   extra |-> lfh.raw_extra, external_attr |-> 0, comment |-> "",
   cdh_filename |-> NoName, cdh_extra |-> NoExtra, source_cd_index |-> 0,
   lfh_filename |-> lfh.filename, lfh_offset |-> lfh.offset,
   is_orphaned_lfh |-> FALSE, is_orphaned_cdh |-> FALSE]

find_matching_cdh_LastMatch(parsed_cdhs, lfh) ==
  LET hits == {i \in 1 .. Len(parsed_cdhs) :
                 parsed_cdhs[i].lfh_offset = lfh.offset}
  IN IF hits = {} THEN 0 ELSE CHOOSE i \in hits : \A j \in hits : j <= i

\* index in parsed_cdhs of the header returned, 0 for None
find_matching_cdh_for_lfh(parsed_cdhs, lfh) ==
  LET hits == {i \in 1 .. Len(parsed_cdhs) :
                 parsed_cdhs[i].lfh_offset = lfh.offset}
  IN IF hits = {} THEN 0 ELSE CHOOSE i \in hits : \A j \in hits : i <= j

merge_cdh_into_extended_info(extended_info, parsed_cdhs, k) ==
  LET cdh == parsed_cdhs[k]
  IN [extended_info EXCEPT
        !.cdh_filename = cdh.filename,
        !.cdh_extra = cdh.raw_extra,
        !.source_cd_index = k - 1,
        !.external_attr = cdh.external_attr,
        !.comment = cdh.comment,
        !.extra = IF cdh.raw_extra # <<>> THEN cdh.raw_extra ELSE @]

OrphanedEntry(parsed_cdhs, lfh) ==
  LET extended == [create_extended_zipinfo_from_lfh(lfh) EXCEPT
                     !.is_orphaned_lfh = TRUE, !.is_orphaned_cdh = TRUE]
      matching_cdh == find_matching_cdh_for_lfh(parsed_cdhs, lfh)
  IN IF matching_cdh # 0
     THEN [merge_cdh_into_extended_info(extended, parsed_cdhs, matching_cdh)
             EXCEPT !.is_orphaned_cdh = FALSE]
     ELSE extended

build_extended_infolist(f, parsed_lfhs, parsed_cdhs) ==
  LET infos == infolist(f)
      standard_lfh_offsets ==
        {infos[i].header_offset : i \in 1 .. Len(infos)}
      standard == [i \in 1 .. Len(infos) |->
                     create_extended_zipinfo_from_standard(infos[i], parsed_lfhs)]
      orphaned_lfhs == SelectSeq(parsed_lfhs,
                         LAMBDA l : l.offset \notin standard_lfh_offsets)
  IN IF f.orphaned_mode
     THEN standard \o [i \in 1 .. Len(orphaned_lfhs) |->
                         OrphanedEntry(parsed_cdhs, orphaned_lfhs[i])]
     ELSE standard

SeqNames(es) == {es[i].filename : i \in 1 .. Len(es)}

RECURSIVE AppendNew(_, _)
AppendNew(names, es) ==
  IF es = <<>> THEN names
  ELSE AppendNew(IF Head(es).is_orphaned_lfh /\
                    Head(es).filename \notin {names[i] : i \in 1 .. Len(names)}
                 THEN Append(names, Head(es).filename) ELSE names,
                 Tail(es))

ZipFile_namelist(f, extended_infolist) ==
  [i \in 1 .. Len(infolist(f)) |-> infolist(f)[i].filename]

ExtendedZipFile_namelist(f, extended_infolist) ==
  AppendNew(ZipFile_namelist(f, extended_infolist), extended_infolist)

\* ExtendedZipFile(path, 'r', orphaned_mode=...): scan, parse, build
OrphOpen ==
  /\ ofile.exists
  /\ ~oext.opened
  /\ LET file_data == RecordsOf(ofile)
         parsed_lfhs == parse_all_signatures(file_data, "LFH")
         parsed_cdhs == parse_all_signatures(file_data, "CDH")
     IN oext' = [opened |-> TRUE, parsed_lfhs |-> parsed_lfhs,
                 parsed_cdhs |-> parsed_cdhs,
                 extended_infolist |->
                   build_extended_infolist(ofile, parsed_lfhs, parsed_cdhs),
                 names |-> <<>>, listed |-> FALSE]
  /\ UNCHANGED <<ofile, archVars, txnVars, polyVars, unitVars>>

OrphNamelist ==
  /\ oext.opened
  /\ ~oext.listed
  /\ oext' = [oext EXCEPT
                !.names = ExtendedZipFile_namelist(ofile, oext.extended_infolist),
                !.listed = TRUE]
  /\ UNCHANGED <<ofile, archVars, txnVars, polyVars, unitVars>>

OrphInit ==
  /\ ArchIdle /\ fmt = "zip" /\ TxnIdle /\ PolyIdle /\ UnitIdle
  /\ \E l \in {x \in SeqsUpTo(LFHNames, MaxLFH) : Len(x) >= 1} :
       \E S \in SUBSET (0 .. (Len(l) - 1)), mm \in BOOLEAN, om \in BOOLEAN :
         \E h \in SeqsUpTo(HiddenAlphabet, MaxHidden) :
           ofile = OrphFile(l, S, mm, h, om)
  /\ oext = NoExt

OrphNext ==
  \/ OrphOpen
  \/ OrphNamelist

SpecOrph == OrphInit /\ [][OrphNext]_vars

(***************************************************************************)
(* Properties of SpecOrph                                                  *)
(***************************************************************************)
MainOffsets == {ofile.main[i].lfh_offset : i \in 1 .. Len(ofile.main)}

MainNames == {ofile.main[i].filename : i \in 1 .. Len(ofile.main)}

UnreferencedLFHs ==
  {i \in 1 .. Len(oext.parsed_lfhs) :
     oext.parsed_lfhs[i].offset \notin MainOffsets}

ListedNames == {oext.names[i] : i \in 1 .. Len(oext.names)}

\* C11: the names namelist() returns are, as a set, the names the main
\* central directory lists for the local headers it references, united in
\* orphan mode with the name of every parsed local header whose offset the
\* main central directory does not reference; without orphan mode they are
\* exactly the main central directory names.
C11_NamelistOrphans ==
  oext.listed =>
    ListedNames =
      MainNames \cup
        (IF ofile.orphaned_mode
         THEN {oext.parsed_lfhs[i].filename : i \in UnreferencedLFHs}
         ELSE {})

C11_Witness ==
  /\ oext.listed
  /\ ofile.orphaned_mode
  /\ Len(ofile.main) >= 1
  /\ \E i \in UnreferencedLFHs : oext.parsed_lfhs[i].filename \notin MainNames
  /\ Cardinality(ListedNames) = 2

\* the parsed headers that lie outside the main central directory
HiddenParsed ==
  {k \in 1 .. Len(oext.parsed_cdhs) :
     oext.parsed_cdhs[k].offset >= Len(ofile.lfhs) + Len(ofile.main)}

PointsNowhere(k) ==
  \A i \in 1 .. Len(oext.parsed_lfhs) :
    oext.parsed_lfhs[i].offset # oext.parsed_cdhs[k].lfh_offset

\* C12: in orphan mode every parsed central directory header outside the
\* main central directory whose lfh_offset matches no parsed local header
\* has an entry of the extended list carrying its name and marked as an
\* orphaned header of the central directory only.
C12_OrphanedCDHListed ==
  (oext.opened /\ ofile.orphaned_mode) =>
    \A k \in HiddenParsed :
      PointsNowhere(k) =>
        \E j \in 1 .. Len(oext.extended_infolist) :
          /\ oext.extended_infolist[j].cdh_filename = oext.parsed_cdhs[k].filename
          /\ oext.extended_infolist[j].is_orphaned_cdh
          /\ ~oext.extended_infolist[j].is_orphaned_lfh

MatchingCDHs(lfh) ==
  {k \in 1 .. Len(oext.parsed_cdhs) :
     oext.parsed_cdhs[k].lfh_offset = lfh.offset}

LowestOffset(ks) ==
  CHOOSE k \in ks :
    \A j \in ks : oext.parsed_cdhs[k].offset <= oext.parsed_cdhs[j].offset

EntriesOfLFH(lfh) ==
  {j \in 1 .. Len(oext.extended_infolist) :
     /\ oext.extended_infolist[j].is_orphaned_lfh
     /\ oext.extended_infolist[j].header_offset = lfh.offset}

None == <<>>
Some(v) == <<v>>
Attr(h, l) == [hi |-> h, lo |-> l]

RECURSIVE BitAnd(_, _)
\* a & b for b >= 0 (a may be negative, as in Python)
BitAnd(a, b) ==
  IF b = 0 THEN 0
  ELSE (a % 2) * (b % 2) + 2 * BitAnd((a - (a % 2)) \div 2, b \div 2)

RECURSIVE BitOr(_, _)
\* a | b for a, b >= 0
BitOr(a, b) ==
  IF a = 0 /\ b = 0 THEN 0
  ELSE (IF a % 2 = 1 \/ b % 2 = 1 THEN 1 ELSE 0)
       + 2 * BitOr(a \div 2, b \div 2)

S_IFREG == 32768
S_IFDIR == 16384
S_IFLNK == 40960
DOS_DIRECTORY == 16
S_IFMT == 61440
PermMask == 4095

DefaultMode(is_dir, is_symlink) ==
  IF is_dir THEN 509 ELSE IF is_symlink THEN 493 ELSE 420

FullMode_IgnorePreserve(mode, is_dir, is_symlink, preserve_type, orig_attr) ==
  LET m == IF mode = None THEN DefaultMode(is_dir, is_symlink) ELSE mode[1]
  IN BitOr(BitAnd(m, PermMask),
           IF is_symlink THEN S_IFLNK ELSE IF is_dir THEN S_IFDIR ELSE S_IFREG)

\* _set_file_permissions, the mode and the type bits
FullMode(mode, is_dir, is_symlink, preserve_type, orig_attr) ==
  LET m == IF mode = None THEN DefaultMode(is_dir, is_symlink) ELSE mode[1]
  IN IF preserve_type /\ orig_attr # None
     THEN BitOr(BitAnd(m, PermMask), BitAnd(orig_attr[1].hi, S_IFMT))
     ELSE IF is_symlink THEN BitOr(BitAnd(m, PermMask), S_IFLNK)
     ELSE IF is_dir THEN BitOr(BitAnd(m, PermMask), S_IFDIR)
     ELSE BitOr(BitAnd(m, PermMask), S_IFREG)

DosAttr(is_dir) == IF is_dir THEN DOS_DIRECTORY ELSE 0

\* (full_mode << 16) | dos_attr
ExternalAttr(full_mode, dos_attr) == Attr(full_mode, dos_attr)

RECURSIVE BitXor(_, _)
BitXor(a, b) ==
  IF a = 0 /\ b = 0 THEN 0
  ELSE (IF a % 2 = b % 2 THEN 0 ELSE 1) + 2 * BitXor(a \div 2, b \div 2)

\* binascii.crc32 on a 32-bit register held as four little-endian bytes;
\* CrcPoly is the reflected polynomial 0xEDB88320
CrcPoly == <<32, 131, 184, 237>>
CrcOnes == <<255, 255, 255, 255>>

XorBytes(x, y) ==
  <<BitXor(x[1], y[1]), BitXor(x[2], y[2]), BitXor(x[3], y[3]),
    BitXor(x[4], y[4])>>

\* the register shifted right by one bit
Shr1(c) ==
  <<(c[1] \div 2) + (c[2] % 2) * 128, (c[2] \div 2) + (c[3] % 2) * 128,
    (c[3] \div 2) + (c[4] % 2) * 128, c[4] \div 2>>

RECURSIVE CrcBits(_, _)
CrcBits(c, k) ==
  IF k = 0 THEN c
  ELSE CrcBits(IF c[1] % 2 = 1 THEN XorBytes(Shr1(c), CrcPoly) ELSE Shr1(c),
               k - 1)

RECURSIVE CrcUpdate(_, _)
CrcUpdate(c, bs) ==
  IF bs = <<>> THEN c
  ELSE CrcUpdate(CrcBits(<<BitXor(c[1], Head(bs)), c[2], c[3], c[4]>>, 8),
                 Tail(bs))

\* binascii.crc32(bs).to_bytes(4, byteorder='little')
crc32(bs) == XorBytes(CrcUpdate(CrcOnes, bs), CrcOnes)

UX_HEADER_ID == 30837
UP_HEADER_ID == 28789

\* the copy loop shared by both writers: every field but those of header_id
RECURSIVE StripFields(_, _, _)
StripFields(extra_data, pos, header_id) ==
  IF pos + 4 > Len(extra_data) THEN <<>>
  ELSE LET id == FromBytes(Slice(extra_data, pos, pos + 2))
           data_size == FromBytes(Slice(extra_data, pos + 2, pos + 4))
       IN IF id = header_id
          THEN StripFields(extra_data, pos + 4 + data_size, header_id)
          ELSE Slice(extra_data, pos, pos + 4 + data_size)
               \o StripFields(extra_data, pos + 4 + data_size, header_id)

RECURSIVE ByteLength(_)
\* (n.bit_length() + 7) // 8 or 1
ByteLength(n) == IF n < 256 THEN 1 ELSE 1 + ByteLength(n \div 256)

MinimalBytes(n) == Slice(ToBytes(n, ByteLength(n)), 0, 255)

add_uid_gid_NoStrip(info, uid, gid) ==
  LET uid_bytes == MinimalBytes(uid)
      gid_bytes == MinimalBytes(gid)
      field_data == <<1, Len(uid_bytes)>> \o uid_bytes
                    \o <<Len(gid_bytes)>> \o gid_bytes
  IN [info EXCEPT !.extra = info.extra \o ToBytes(UX_HEADER_ID, 2)
                            \o ToBytes(Len(field_data), 2) \o field_data]

add_uid_gid_extra_field(info, uid, gid) ==
  LET new_extra == StripFields(info.extra, 0, UX_HEADER_ID)
      uid_bytes == MinimalBytes(uid)
      gid_bytes == MinimalBytes(gid)
      field_data == <<1, Len(uid_bytes)>> \o uid_bytes
                    \o <<Len(gid_bytes)>> \o gid_bytes
  IN [info EXCEPT !.extra = new_extra \o ToBytes(UX_HEADER_ID, 2)
                            \o ToBytes(Len(field_data), 2) \o field_data]

add_unicode_path_CrcOfOverride(info, path, override_path) ==
  LET new_extra == StripFields(info.extra, 0, UP_HEADER_ID)
      path_unicode == IF override_path # None THEN override_path[1] ELSE path
      field_data == <<1>> \o crc32(path_unicode) \o path_unicode
  IN [info EXCEPT !.extra = new_extra \o ToBytes(UP_HEADER_ID, 2)
                            \o ToBytes(Len(field_data), 2) \o field_data]

add_unicode_path_extra_field(info, path, override_path) ==
  LET new_extra == StripFields(info.extra, 0, UP_HEADER_ID)
      path_bytes == path
      path_unicode == IF override_path # None THEN override_path[1]
                      ELSE path_bytes
      field_data == <<1>> \o crc32(path_bytes) \o path_unicode
  IN [info EXCEPT !.extra = new_extra \o ToBytes(UP_HEADER_ID, 2)
                            \o ToBytes(Len(field_data), 2) \o field_data]

set_file_permissions(info, mode, is_dir, is_symlink, preserve_type, orig_attr, uid, gid, override_unicode_path) ==
  LET full_mode == FullMode(mode, is_dir, is_symlink, preserve_type, orig_attr)
      i1 == [info EXCEPT
               !.external_attr = ExternalAttr(full_mode, DosAttr(is_dir))]
      i2 == IF uid # None \/ gid # None
            THEN add_uid_gid_extra_field(i1,
                   IF uid = None THEN 0 ELSE uid[1],
                   IF gid = None THEN 0 ELSE gid[1])
            ELSE i1
  IN IF override_unicode_path # None
     THEN add_unicode_path_extra_field(i2, i2.filename, override_unicode_path)
     ELSE i2

\* _parse_ux_uid_gid: the uid and gid decoded, None where the code sets none
parse_ux_uid_gid(data) ==
  LET version == IF Len(data) >= 1 THEN Some(data[1]) ELSE None
      ok == Len(data) >= 3 /\ version = Some(1)
      uid_size == data[2]
      has_gid_size == ok /\ 2 + uid_size + 1 <= Len(data)
      gid_size == data[2 + uid_size + 1]
  IN [version |-> version,
      uid |-> IF ok /\ 2 + uid_size <= Len(data)
              THEN Some(FromBytes(Slice(data, 2, 2 + uid_size))) ELSE None,
      gid |-> IF has_gid_size /\ 2 + uid_size + 1 + gid_size <= Len(data)
              THEN Some(FromBytes(Slice(data, 2 + uid_size + 1,
                                        2 + uid_size + 1 + gid_size)))
              ELSE None]

\* _parse_unicode_path
parse_unicode_path(data) ==
  LET version == IF Len(data) >= 1 THEN Some(data[1]) ELSE None
  IN [version |-> version,
      path |-> IF Len(data) >= 5 /\ version = Some(1)
               THEN Some(Slice(data, 5, Len(data))) ELSE None]

NoFields == [ux_uid_gid |-> None, Unicode_Path |-> {}]

\* _parse_extra_field from pos on: the last 0x7875 field and every 0x7075
\* field found (the code files further 0x7075 fields under keys of their own)
RECURSIVE parse_extra_field(_, _, _)
parse_extra_field(extra_data, pos, result) ==
  IF pos + 4 > Len(extra_data) THEN result
  ELSE LET header_id == FromBytes(Slice(extra_data, pos, pos + 2))
           data_size == FromBytes(Slice(extra_data, pos + 2, pos + 4))
           header_data == Slice(extra_data, pos + 4, pos + 4 + data_size)
       IN IF pos + 4 + data_size > Len(extra_data) THEN result
          ELSE parse_extra_field(extra_data, pos + 4 + data_size,
                 IF header_id = UX_HEADER_ID
                 THEN [result EXCEPT !.ux_uid_gid = Some(parse_ux_uid_gid(header_data))]
                 ELSE IF header_id = UP_HEADER_ID
                 THEN [result EXCEPT !.Unicode_Path = @ \cup {parse_unicode_path(header_data)}]
                 ELSE result)

\* zipfile.ZipFile(args.file, "r") decodes the extra of every central
\* directory entry and raises BadZipFile on a field that overruns it
RECURSIVE DecodeExtraOk(_)
DecodeExtraOk(extra) ==
  IF Len(extra) < 4 THEN TRUE
  ELSE LET ln == FromBytes(Slice(extra, 2, 4))
       IN IF ln + 4 > Len(extra) THEN FALSE
          ELSE DecodeExtraOk(Slice(extra, ln + 4, Len(extra)))

MaxPriorFields == 2

TLVField(id, data) == ToBytes(id, 2) \o ToBytes(Len(data), 2) \o data

\* fields an archive entry may already carry: an extended timestamp, an old
\* uid/gid field and an old Unicode path field
PriorFields ==
  { TLVField(21589, <<3>>),
    TLVField(UX_HEADER_ID, <<1, 1, 5, 1, 6>>),
    TLVField(UP_HEADER_ID, <<1, 0, 0, 0, 0, 120>>) }

RECURSIVE Flatten(_)
Flatten(ss) == IF ss = <<>> THEN <<>> ELSE Head(ss) \o Flatten(Tail(ss))

PriorExtras == {Flatten(fs) : fs \in SeqsUpTo(PriorFields, MaxPriorFields)}

\* type and DOS halves of entries the tool or another archiver wrote
OrigAttrs ==
  {Attr(0, 0), Attr(41471, 0), Attr(16877, 16), Attr(33188, 0), Attr(35309, 0)}

InfoPaths == {<<114>>, <<100, 47>>}
InfoTarget == <<116>>
InfoOverride == <<46, 46, 47, 117>>

\* args.path.endswith('/') on the bytes of the path
PathEndsWithSlash(bs) == Len(bs) > 0 /\ bs[Len(bs)] = 47

ZipInfo(name) == [filename |-> name, external_attr |-> Attr(0, 0), extra |-> <<>>]

InfoArgs(p, m, u, g, sp, sl, hl, up) ==
  [path |-> p, mode |-> m, uid |-> u, gid |-> g, setuid |-> sp[1],
   setgid |-> sp[2], sticky |-> sp[3], symlink |-> sl, hardlink |-> hl,
   unicodepath |-> up]

SpecialFlags == {<<FALSE, FALSE, FALSE>>, <<TRUE, FALSE, FALSE>>,
                 <<FALSE, TRUE, TRUE>>}

LinkChoices == {<<(<<>>), (<<>>)>>, <<InfoTarget, (<<>>)>>,
                <<(<<>>), InfoTarget>>, <<InfoTarget, InfoTarget>>}

Truthy(opt) == opt # None /\ opt[1] # 0

apply_special_bits(mode, args) ==
  LET m1 == IF args.setuid THEN BitOr(mode, 2048) ELSE mode
      m2 == IF args.setgid THEN BitOr(m1, 1024) ELSE m1
  IN IF args.sticky THEN BitOr(m2, 512) ELSE m2

WantsSpecial(args) == args.setuid \/ args.setgid \/ args.sticky

\* ZipHandler.add: the ZipInfo handed to writestr
ZipAddInfo(args) ==
  LET info == ZipInfo(args.path)
      is_dir == PathEndsWithSlash(args.path)
  IN IF args.symlink # <<>>
     THEN set_file_permissions(info, args.mode, FALSE, TRUE, FALSE, None,
                               args.uid, args.gid, args.unicodepath)
     ELSE IF args.hardlink # <<>>
     THEN set_file_permissions(info, args.mode, FALSE, FALSE, FALSE, None,
                               args.uid, args.gid, args.unicodepath)
     ELSE LET first == set_file_permissions(info, args.mode, is_dir, FALSE,
                         FALSE, None, args.uid, args.gid, args.unicodepath)
              mode == IF Truthy(args.mode) THEN args.mode[1]
                      ELSE IF is_dir THEN 493 ELSE 420
          IN IF WantsSpecial(args)
             THEN set_file_permissions(first,
                    Some(apply_special_bits(mode, args)), is_dir, FALSE,
                    FALSE, None, args.uid, args.gid, args.unicodepath)
             ELSE first

\* ZipHandler.modify: the ZipInfo written for args.path
ZipModifyInfo(orig_info, args) ==
  LET info == [ZipInfo(args.path) EXCEPT !.extra = orig_info.extra]
      is_dir == PathEndsWithSlash(args.path)
      orig_attr == Some(orig_info.external_attr)
      mode == IF Truthy(args.mode) THEN args.mode[1]
              ELSE BitAnd(orig_info.external_attr.hi, 511)
      special == Some(apply_special_bits(mode, args))
  IN IF args.symlink # <<>>
     THEN set_file_permissions(info, args.mode, FALSE, TRUE, FALSE, None,
                               args.uid, args.gid, args.unicodepath)
     ELSE IF args.hardlink # <<>>
     THEN LET first == set_file_permissions(info, args.mode, is_dir, FALSE,
                         TRUE, orig_attr, args.uid, args.gid, args.unicodepath)
          IN IF WantsSpecial(args)
             THEN set_file_permissions(first, special, is_dir, FALSE, TRUE,
                    orig_attr, args.uid, args.gid, args.unicodepath)
             ELSE first
     ELSE LET first == set_file_permissions(info, args.mode, FALSE, FALSE,
                         TRUE, orig_attr, args.uid, args.gid, args.unicodepath)
          IN IF WantsSpecial(args)
             THEN set_file_permissions(first, special, FALSE, FALSE, TRUE,
                    orig_attr, args.uid, args.gid, args.unicodepath)
             ELSE first

EncoderModes == {None, Some(0), Some(420), Some(2541), Some(4095), Some(4516),
                 Some(65535), Some(0 - 1)}

\* a direct call of the permissions encoder on a fresh ZipInfo
InfoEncode ==
  /\ call.fn = "set_file_permissions"
  /\ ret = NoCall
  /\ ret' = [fn |-> call.fn,
             info |-> set_file_permissions(ZipInfo(call.path), call.mode,
                        call.is_dir, call.is_symlink, call.preserve_type,
                        call.orig_attr, None, None, None)]
  /\ UNCHANGED <<call, archVars, txnVars, polyVars, orphVars>>

InfoAdd ==
  /\ call.fn = "add"
  /\ ret = NoCall
  /\ ret' = [fn |-> call.fn, info |-> ZipAddInfo(call.args)]
  /\ UNCHANGED <<call, archVars, txnVars, polyVars, orphVars>>

InfoModify ==
  /\ call.fn = "modify"
  /\ ret = NoCall
  /\ ret' = IF call.args.symlink # <<>> /\ call.args.hardlink # <<>>
            THEN [fn |-> "error", info |-> call.orig_info]
            ELSE IF ~DecodeExtraOk(call.orig_info.extra)
            THEN [fn |-> "raised", info |-> call.orig_info]
            ELSE [fn |-> call.fn, info |-> ZipModifyInfo(call.orig_info, call.args)]
  /\ UNCHANGED <<call, archVars, txnVars, polyVars, orphVars>>

\* TarHandler.add: type and mode of the TarInfo handed to addfile
TarAddHeader(args) ==
  LET given == IF args.symlink # <<>> \/ args.hardlink # <<>>
               THEN Truthy(args.mode) ELSE args.mode # None
      mode == IF given THEN args.mode[1] ELSE 484
  IN [type |-> IF args.symlink # <<>> THEN "2"
               ELSE IF args.hardlink # <<>> THEN "1" ELSE "0",
      mode |-> IF WantsSpecial(args) THEN apply_special_bits(mode, args)
               ELSE mode]

InfoTarAdd ==
  /\ call.fn = "tar_add"
  /\ ret = NoCall
  /\ ret' = [fn |-> call.fn, info |-> TarAddHeader(call.args)]
  /\ UNCHANGED <<call, archVars, txnVars, polyVars, orphVars>>

\* TarHandler.modify: type and mode of the TarInfo written for args.path
TarModifyHeader(orig_member, args) ==
  LET mode == IF args.mode # None THEN args.mode[1] ELSE orig_member.mode
  IN [type |-> IF args.symlink # <<>> THEN "2"
               ELSE IF args.hardlink # <<>> THEN "1" ELSE orig_member.type,
      mode |-> apply_special_bits(mode, args)]

InfoTarModify ==
  /\ call.fn = "tar_modify"
  /\ ret = NoCall
  /\ ret' = IF call.args.symlink # <<>> /\ call.args.hardlink # <<>>
            THEN [fn |-> "error", info |-> call.orig_member]
            ELSE [fn |-> call.fn, info |-> TarModifyHeader(call.orig_member, call.args)]
  /\ UNCHANGED <<call, archVars, txnVars, polyVars, orphVars>>

\* type and mode of members the tool or another archiver wrote
OrigMembers ==
  {[type |-> "0", mode |-> 420], [type |-> "0", mode |-> 2541],
   [type |-> "5", mode |-> 493], [type |-> "2", mode |-> 0]}

TarModifyCalls ==
  {[fn |-> "tar_modify", args |-> InfoArgs(<<114>>, m, None, None, sp, l[1], l[2], None),
    orig_member |-> o] :
     m \in {None, Some(0), Some(384)}, sp \in SpecialFlags, l \in LinkChoices,
     o \in OrigMembers}

TarAddCalls ==
  {[fn |-> "tar_add", args |-> InfoArgs(<<114>>, m, None, None, sp, l[1], l[2], None)] :
     m \in {None, Some(0), Some(384), Some(4095)},
     sp \in SpecialFlags, l \in LinkChoices}

InfoCalls ==
  {[fn |-> "set_file_permissions", path |-> <<114>>, mode |-> m, is_dir |-> d,
    is_symlink |-> s, preserve_type |-> p, orig_attr |-> o] :
     m \in EncoderModes, d \in BOOLEAN, s \in BOOLEAN, p \in BOOLEAN,
     o \in {None} \cup {Some(a) : a \in OrigAttrs \cup {Attr(65535, 65535)}}}
  \cup
  {[fn |-> "add", args |-> InfoArgs(p, m, u, g, sp, l[1], l[2], up)] :
     p \in InfoPaths, m \in {None, Some(0), Some(384)},
     u \in {None, Some(0), Some(1000), Some(2147483647)},
     g \in {None, Some(0), Some(65536)}, sp \in SpecialFlags,
     l \in LinkChoices, up \in {None, Some(InfoOverride), Some(<<>>)}}

InfoModifyCalls ==
  {[fn |-> "modify", args |-> InfoArgs(p, m, u, g, sp, l[1], l[2], up),
    orig_info |-> [filename |-> p, external_attr |-> a, extra |-> x]] :
     p \in InfoPaths, m \in {None, Some(0), Some(384)},
     u \in {None, Some(1000)}, g \in {None, Some(0)},
     sp \in {<<FALSE, FALSE, FALSE>>, <<TRUE, FALSE, FALSE>>},
     l \in LinkChoices, up \in {None, Some(InfoOverride)},
     a \in OrigAttrs, x \in PriorExtras}

\* what may follow the complete fields of an adversarial entry's extra: stray
\* bytes, and fields whose declared size runs past the end
BrokenTails ==
  { <<117>>, <<117, 120, 11>>, <<153, 153, 5, 0, 170>>, <<153, 153, 8, 0>>,
    <<117, 120, 11, 0, 1>>, <<117, 112, 200, 0, 1, 0>> }

AdversarialExtras ==
  {Flatten(fs) \o t : fs \in SeqsUpTo(PriorFields, 1), t \in BrokenTails}

AdversarialModifyCalls ==
  {[fn |-> "modify", args |-> InfoArgs(<<114>>, None, u, g, sp, <<>>, <<>>, up),
    orig_info |-> [filename |-> <<114>>, external_attr |-> Attr(33188, 0), extra |-> x]] :
     u \in {None, Some(1000)}, g \in {None, Some(0)},
     sp \in {<<FALSE, FALSE, FALSE>>, <<TRUE, FALSE, FALSE>>},
     up \in {None, Some(InfoOverride)}, x \in AdversarialExtras}

\* the two field writers called on a ZipInfo that carries such an extra
FieldWriterCalls ==
  {[fn |-> "add_extra_field", info |-> [ZipInfo(<<114>>) EXCEPT !.extra = x],
    args |-> InfoArgs(<<114>>, None, u, g, <<FALSE, FALSE, FALSE>>, <<>>, <<>>, up)] :
     u \in {None, Some(1000)}, g \in {None, Some(0)},
     up \in {None, Some(InfoOverride)}, x \in AdversarialExtras \cup PriorExtras}

\* _set_file_permissions from the uid/gid test on (the extra field half)
InfoWriteField ==
  /\ call.fn = "add_extra_field"
  /\ ret = NoCall
  /\ ret' = [fn |-> call.fn,
             info |-> set_file_permissions(call.info, None, FALSE, FALSE, FALSE,
                        None, call.args.uid, call.args.gid, call.args.unicodepath)]
  /\ UNCHANGED <<call, archVars, txnVars, polyVars, orphVars>>

InfoInit ==
  /\ ArchIdle /\ fmt = "zip" /\ TxnIdle /\ PolyIdle /\ OrphIdle
  /\ call \in InfoCalls \cup InfoModifyCalls \cup TarAddCalls \cup TarModifyCalls
                \cup AdversarialModifyCalls \cup FieldWriterCalls
  /\ ret = NoCall

InfoNext ==
  \/ InfoEncode
  \/ InfoAdd
  \/ InfoModify
  \/ InfoTarAdd
  \/ InfoTarModify
  \/ InfoWriteField

SpecInfo == InfoInit /\ [][InfoNext]_vars

(***************************************************************************)
(* Properties of SpecInfo                                                  *)
(***************************************************************************)
TypeBitsOf(attr) == ((attr.hi \div 4096) % 16) * 4096

\* C14: for every mode (absent or an integer), is_dir, is_symlink,
\* preserve_type and original attribute the encoder leaves
\* external_attr = (full_mode << 16) | dos_attr with
\* full_mode = (mode & 0o7777) | type_bits, the mode defaulting to 0o775 for
\* a directory, 0o755 for a symlink and 0o644 otherwise, type_bits taken from
\* the original attribute when preserve_type holds and one is given and
\* else 0o120000 / 0o040000 / 0o100000, and dos_attr 0x10 exactly for a
\* directory.
C14_PermissionsEncoder ==
  ret.fn = "set_file_permissions" =>
    LET m == IF call.mode # None THEN call.mode[1]
             ELSE IF call.is_dir THEN 509
             ELSE IF call.is_symlink THEN 493 ELSE 420
        type_bits ==
          IF call.preserve_type /\ call.orig_attr # None
          THEN TypeBitsOf(call.orig_attr[1])
          ELSE IF call.is_symlink THEN 40960
          ELSE IF call.is_dir THEN 16384 ELSE 32768
    IN /\ ret.info.external_attr.hi = (m % 4096) + type_bits
       /\ ret.info.external_attr.lo = (IF call.is_dir THEN 16 ELSE 0)

C14_Witness ==
  /\ ret.fn = "set_file_permissions"
  /\ call.mode = Some(4516)
  /\ call.preserve_type /\ call.is_dir /\ call.is_symlink
  /\ call.orig_attr = Some(Attr(41471, 0))
  /\ ret.info.external_attr = Attr(41380, 16)

\* C13: ZIP modify without --symlink and --hardlink leaves the type bits
\* (external_attr >> 16) & 0o170000 of the entry as they were; with
\* --symlink they are 0o120000; with --hardlink they are 0o100000, or
\* 0o040000 when the path ends in '/', whatever the original entry was.
C13_ModifyTypeBits ==
  ret.fn = "modify" =>
    TypeBitsOf(ret.info.external_attr) =
      (IF call.args.symlink # <<>> THEN 40960
       ELSE IF call.args.hardlink # <<>>
       THEN (IF PathEndsWithSlash(call.args.path) THEN 16384 ELSE 32768)
       ELSE TypeBitsOf(call.orig_info.external_attr))

RECURSIVE TLV(_)
\* the fields of a well-formed extra: header id and data of each
TLV(bs) ==
  IF Len(bs) < 4 THEN <<>>
  ELSE LET n == bs[3] + 256 * bs[4]
       IN <<[id |-> bs[1] + 256 * bs[2], data |-> SubSeq(bs, 5, 4 + n)]>>
          \o TLV(SubSeq(bs, 5 + n, Len(bs)))

WithId(fs, id) == SelectSeq(fs, LAMBDA f : f.id = id)
WithoutId(fs, id) == SelectSeq(fs, LAMBDA f : f.id # id)

RECURSIVE LittleEndian(_)
\* the shortest little-endian form of n, one byte for 0
LittleEndian(n) ==
  IF n < 256 THEN <<n>> ELSE <<n % 256>> \o LittleEndian(n \div 256)

UidGidCall ==
  /\ ret.fn \in {"add", "modify"}
  /\ (call.args.uid # None \/ call.args.gid # None)

PriorExtra == IF call.fn = "modify" THEN call.orig_info.extra ELSE <<>>

SuppliedUid == IF call.args.uid = None THEN 0 ELSE call.args.uid[1]
SuppliedGid == IF call.args.gid = None THEN 0 ELSE call.args.gid[1]

UxFieldRight(f) ==
  /\ f.data = <<1, Len(LittleEndian(SuppliedUid))>> \o LittleEndian(SuppliedUid)
              \o <<Len(LittleEndian(SuppliedGid))>> \o LittleEndian(SuppliedGid)
  /\ parse_ux_uid_gid(f.data).uid = Some(SuppliedUid)
  /\ parse_ux_uid_gid(f.data).gid = Some(SuppliedGid)

\* C15 as stated: when uid or gid is supplied the resulting extra holds
\* exactly one 0x7875 field, it is the last field, it is laid out as
\* version 1, uid_size, uid, gid_size, gid and the reader decodes the
\* supplied pair from it, and every other prior field is kept in order.
C15_AsStated ==
  UidGidCall =>
    LET fs == TLV(ret.info.extra)
    IN /\ Len(WithId(fs, UX_HEADER_ID)) = 1
       /\ fs[Len(fs)].id = UX_HEADER_ID
       /\ UxFieldRight(fs[Len(fs)])
       /\ SubSeq(fs, 1, Len(fs) - 1) = WithoutId(TLV(PriorExtra), UX_HEADER_ID)

\* C15, amended: as stated, except that when a Unicode path override is
\* supplied in the same command the single 0x7875 field is followed by the
\* single 0x7075 field and prior 0x7075 fields are dropped.
C15_UidGidField ==
  UidGidCall =>
    LET fs == TLV(ret.info.extra)
        up == call.args.unicodepath # None
        k == IF up THEN Len(fs) - 1 ELSE Len(fs)
        kept == WithoutId(TLV(PriorExtra), UX_HEADER_ID)
    IN /\ Len(WithId(fs, UX_HEADER_ID)) = 1
       /\ k >= 1
       /\ fs[k].id = UX_HEADER_ID
       /\ UxFieldRight(fs[k])
       /\ (up => fs[Len(fs)].id = UP_HEADER_ID)
       /\ SubSeq(fs, 1, k - 1) =
            (IF up THEN WithoutId(kept, UP_HEADER_ID) ELSE kept)

C15_Witness ==
  /\ UidGidCall
  /\ call.fn = "modify"
  /\ call.args.uid = None /\ call.args.gid = Some(0)
  /\ call.args.unicodepath = None
  /\ Len(WithId(TLV(PriorExtra), UX_HEADER_ID)) = 2
  /\ Len(TLV(ret.info.extra)) = 1

C17_TarAddMode ==
  ret.fn = "tar_add" =>
    LET base == IF call.args.mode = None THEN 484 ELSE call.args.mode[1]
        bit(b, v) == IF b /\ (base \div v) % 2 = 0 THEN v ELSE 0
    IN ret.info.mode = base + bit(call.args.setuid, 2048)
                       + bit(call.args.setgid, 1024)
                       + bit(call.args.sticky, 512)

(***************************************************************************)
(* SpecPath: the output path extract computes for an entry name            *)
(* (base_handler.py _sanitize_path, with posixpath's normpath, isabs,      *)
(* basename and join).  Paths are character sequences.                     *)
(***************************************************************************)
MaxPathLen == 5

PathChars == {"a", ".", "/"}
DotDot == <<".", ".">>

RECURSIVE SplitSep(_, _)
\* path.split(os.sep): the components, empty ones included
SplitSep(s, cur) ==
  IF s = <<>> THEN <<cur>>
  ELSE IF Head(s) = "/" THEN <<cur>> \o SplitSep(Tail(s), <<>>)
  ELSE SplitSep(Tail(s), Append(cur, Head(s)))

RECURSIVE JoinSep(_)
\* '/'.join(parts)
JoinSep(parts) ==
  IF parts = <<>> THEN <<>>
  ELSE IF Len(parts) = 1 THEN parts[1]
  ELSE parts[1] \o <<"/">> \o JoinSep(Tail(parts))

RECURSIVE NormComps(_, _, _)
NormComps(comps, new_comps, initial_slashes) ==
  IF comps = <<>> THEN new_comps
  ELSE LET comp == Head(comps)
       IN IF comp = <<>> \/ comp = <<".">>
          THEN NormComps(Tail(comps), new_comps, initial_slashes)
          ELSE IF comp # DotDot
                  \/ (initial_slashes = 0 /\ new_comps = <<>>)
                  \/ (new_comps # <<>> /\ new_comps[Len(new_comps)] = DotDot)
          THEN NormComps(Tail(comps), Append(new_comps, comp), initial_slashes)
          ELSE IF new_comps # <<>>
          THEN NormComps(Tail(comps), SubSeq(new_comps, 1, Len(new_comps) - 1),
                         initial_slashes)
          ELSE NormComps(Tail(comps), new_comps, initial_slashes)

\* posixpath.normpath
normpath(path) ==
  IF path = <<>> THEN <<".">>
  ELSE LET initial_slashes ==
             IF ~StartsWith(path, <<"/">>) THEN 0
             ELSE IF StartsWith(path, <<"/", "/">>)
                     /\ ~StartsWith(path, <<"/", "/", "/">>) THEN 2
             ELSE 1
           joined == JoinSep(NormComps(SplitSep(path, <<>>), <<>>, initial_slashes))
           res == [i \in 1 .. initial_slashes |-> "/"] \o joined
       IN IF res = <<>> THEN <<".">> ELSE res

isabs(path) == StartsWith(path, <<"/">>)

\* posixpath.basename: what follows the last '/'
basename(path) ==
  LET slashes == {i \in 1 .. Len(path) : path[i] = "/"}
      i == IF slashes = {} THEN 0
           ELSE CHOOSE k \in slashes : \A j \in slashes : j <= k
  IN SubSeq(path, i + 1, Len(path))

\* posixpath.join(a, b)
path_join(a, b) ==
  IF StartsWith(b, <<"/">>) THEN b
  ELSE IF a = <<>> \/ a[Len(a)] = "/" THEN a \o b
  ELSE a \o <<"/">> \o b

RECURSIVE JoinAll(_)
\* os.path.join(*parts)
JoinAll(parts) ==
  IF Len(parts) = 1 THEN parts[1]
  ELSE JoinAll(<<path_join(parts[1], parts[2])>> \o SubSeq(parts, 3, Len(parts)))

sanitize_path_KeepDotDot(path, output_dir) ==
  LET p1 == normpath(path)
      p2 == IF isabs(p1) THEN basename(p1) ELSE p1
      parts == SelectSeq(SplitSep(p2, <<>>),
                         LAMBDA part : part # <<".">> /\ part # <<>>)
      safe_path == IF parts # <<>> THEN JoinAll(parts) ELSE <<>>
  IN path_join(output_dir, safe_path)

sanitize_path(path, output_dir) ==
  LET p1 == normpath(path)
      p2 == IF isabs(p1) THEN basename(p1) ELSE p1
      parts == SelectSeq(SplitSep(p2, <<>>),
                         LAMBDA part : part # <<".">> /\ part # <<>>
                                       /\ part # DotDot)
      safe_path == IF parts # <<>> THEN JoinAll(parts) ELSE <<>>
  IN path_join(output_dir, safe_path)

OutputDirs == {<<"o">>, <<"o", "/">>, <<".">>}

\* extract without --vulnerable
PathSanitize ==
  /\ call.fn = "extract" /\ ~call.vulnerable
  /\ ret = NoCall
  /\ ret' = [fn |-> call.fn,
             output_path |-> sanitize_path(call.name, call.output_dir)]
  /\ UNCHANGED <<call, archVars, txnVars, polyVars, orphVars>>

\* extract --vulnerable
PathVulnerable ==
  /\ call.fn = "extract" /\ call.vulnerable
  /\ ret = NoCall
  /\ ret' = [fn |-> call.fn,
             output_path |-> path_join(call.output_dir, call.name)]
  /\ UNCHANGED <<call, archVars, txnVars, polyVars, orphVars>>

PathInit ==
  /\ ArchIdle /\ TxnIdle /\ PolyIdle /\ OrphIdle
  /\ \E n \in SeqsUpTo(PathChars, MaxPathLen), d \in OutputDirs, v \in BOOLEAN :
       call = [fn |-> "extract", name |-> n, output_dir |-> d, vulnerable |-> v]
  /\ ret = NoCall

PathNext ==
  \/ PathSanitize
  \/ PathVulnerable

SpecPath == PathInit /\ [][PathNext]_vars

(***************************************************************************)
(* Properties of SpecPath                                                  *)
(***************************************************************************)
DirPrefix(d) == IF d[Len(d)] = "/" THEN d ELSE d \o <<"/">>

\* C18: for every entry name the path extract computes without
\* --vulnerable is the output directory followed by a relative path none of
\* whose components is '..'.
C18_SanitizedUnderOutputDir ==
  (ret.fn = "extract" /\ ~call.vulnerable) =>
    LET pre == DirPrefix(call.output_dir)
        rel == SubSeq(ret.output_path, Len(pre) + 1, Len(ret.output_path))
    IN /\ StartsWith(ret.output_path, pre)
       /\ ~StartsWith(rel, <<"/">>)
       /\ \A i \in 1 .. Len(SplitSep(rel, <<>>)) : SplitSep(rel, <<>>)[i] # DotDot

C18_Witness ==
  /\ ret.fn = "extract" /\ ~call.vulnerable
  /\ call.name = <<".", ".", "/", "a">>
  /\ call.output_dir = <<"o">>
  /\ ret.output_path = <<"o", "/", "a">>

(***************************************************************************)
(* SpecSweep: the signature sweep of ExtendedZipFile over the bytes of a   *)
(* file.  Offsets count from 0 as in the source.                           *)
(***************************************************************************)

MaxBuf == 6

\* bytes a buffer is drawn from: 'P', 'K' and the second halves of the
\* EOCD, ZIP64 EOCD and ZIP64 EOCD locator signatures
SweepBytes == {80, 75, 5, 6, 7}

\* file_data.find(sub, offset): the lowest position at or after offset at
\* which sub occurs, -1 when there is none
bytes_find(file_data, sub, offset) ==
  LET hits == {p \in offset .. Len(file_data) - Len(sub) :
                 Slice(file_data, p, p + Len(sub)) = sub}
  IN IF hits = {} THEN -1 ELSE CHOOSE p \in hits : \A q \in hits : p <= q

PK == <<80, 75>>

\* pk_types.get(signature): the type of a four-byte signature, "" for None
identify_pk_signature(signature) ==
  CASE signature = <<80, 75, 3, 4>> -> "LFH"
    [] signature = <<80, 75, 1, 2>> -> "CDH"
    [] signature = <<80, 75, 5, 6>> -> "EOCD"
    [] signature = <<80, 75, 7, 8>> -> "DD"
    [] signature = <<80, 75, 6, 6>> -> "ZIP64_EOCD"
    [] signature = <<80, 75, 6, 7>> -> "ZIP64_EOCDL"
    [] OTHER -> ""

PKSignature(offset, signature, sig_type) ==
  [offset |-> offset, signature |-> signature, sig_type |-> sig_type]

\* a sweep that moves past the four bytes it has just looked at
SweepStep_PastSignature(pos) == pos + 4

\* offset = pos + 2
SweepStep(pos) == pos + 2

\* the while loop of _find_all_pk_signatures from the given offset on
RECURSIVE pk_sweep(_, _)
pk_sweep(file_data, offset) ==
  IF ~(offset < Len(file_data)) THEN <<>>
  ELSE LET pos == bytes_find(file_data, PK, offset)
       IN IF pos = -1 THEN <<>>
          ELSE LET sig == Slice(file_data, pos, pos + 4)
                   sig_type == identify_pk_signature(sig)
                   found == IF pos + 4 <= Len(file_data) /\ sig_type # ""
                            THEN <<PKSignature(pos, sig, sig_type)>>
                            ELSE <<>>
               IN found \o pk_sweep(file_data, SweepStep(pos))

\* _find_all_pk_signatures(file_data)
SweepFind ==
  /\ call.fn = "find_all_pk_signatures"
  /\ ret = NoCall
  /\ ret' = [fn |-> call.fn, pk_signatures |-> pk_sweep(call.file_data, 0)]
  /\ UNCHANGED <<call, archVars, txnVars, polyVars, orphVars>>

\* _identify_pk_signature(signature) on four bytes
SweepIdentify ==
  /\ call.fn = "identify_pk_signature"
  /\ ret = NoCall
  /\ ret' = [fn |-> call.fn, sig_type |-> identify_pk_signature(call.signature)]
  /\ UNCHANGED <<call, archVars, txnVars, polyVars, orphVars>>

SweepInit ==
  /\ ArchIdle /\ fmt = "zip" /\ TxnIdle /\ PolyIdle /\ OrphIdle
  /\ \/ \E b \in SeqsUpTo(SweepBytes, MaxBuf) :
          call = [fn |-> "find_all_pk_signatures", file_data |-> b]
     \/ \E s \in [1 .. 4 -> SweepBytes] :
          call = [fn |-> "identify_pk_signature", signature |-> s]
  /\ ret = NoCall

SweepNext ==
  \/ SweepFind
  \/ SweepIdentify

SpecSweep == SweepInit /\ [][SweepNext]_vars

(***************************************************************************)
(* Properties of SpecSweep                                                 *)
(***************************************************************************)

KnownSignatures ==
  {<<80, 75, 3, 4>>, <<80, 75, 1, 2>>, <<80, 75, 5, 6>>,
   <<80, 75, 7, 8>>, <<80, 75, 6, 6>>, <<80, 75, 6, 7>>}

SignatureOffsets(buf) ==
  {i \in 0 .. Len(buf) - 4 : Slice(buf, i, i + 4) \in KnownSignatures}

MaxBlocks == 3

BLOCKSIZE == 512

Pad(bs, n) == bs \o Zeros(n - Len(bs))

\* a header block: name at 0, mode at 100, size at 124, mtime at 136,
\* typeflag at 156; uid, gid, chksum and the USTAR fields are NUL
HeaderBlock(name, mode, size, mtime, typeflag) ==
  Pad(name, 100) \o Pad(mode, 8) \o Zeros(16) \o Pad(size, 12)
    \o Pad(mtime, 12) \o Zeros(8) \o typeflag \o Zeros(355)

OctZero == <<48, 48, 48, 48, 48, 48, 48, 48, 48, 48, 48>>
OctMode == <<48, 48, 48, 48, 54, 52, 52>>
NotOctal == <<122, 122, 122, 122, 122, 122, 122>>

\* the blocks streams are made of
Block_zero == Pad(<<>>, BLOCKSIZE)
Block_a == HeaderBlock(<<97>>, OctMode, OctZero, OctZero, <<48>>)
Block_b1 ==
  HeaderBlock(<<98>>, OctMode, <<48, 48, 48, 48, 48, 48, 48, 48, 48, 48, 49>>, OctZero, <<48>>)
Block_L2 ==
  HeaderBlock(<<76>>, OctMode, <<48, 48, 48, 48, 48, 48, 48, 48, 48, 48, 50>>, OctZero, <<76>>)
Block_L0 == HeaderBlock(<<76>>, OctMode, OctZero, OctZero, <<76>>)
Block_n == Pad(<<110>>, BLOCKSIZE)
Block_badsize == HeaderBlock(<<120>>, OctMode, NotOctal, OctZero, <<48>>)
Block_badmtime == HeaderBlock(<<120>>, OctMode, OctZero, NotOctal, <<48>>)
Block_badmode == HeaderBlock(<<120>>, NotOctal, OctZero, OctZero, <<48>>)
Block_badtype == HeaderBlock(<<120>>, OctMode, OctZero, OctZero, <<255>>)

BlockNames ==
  {"zero", "a", "b1", "L2", "L0", "n", "badsize", "badmtime", "badmode",
   "badtype"}

BlockBytes(id) ==
  CASE id = "zero" -> Block_zero
    [] id = "a" -> Block_a
    [] id = "b1" -> Block_b1
    [] id = "L2" -> Block_L2
    [] id = "L0" -> Block_L0
    [] id = "n" -> Block_n
    [] id = "badsize" -> Block_badsize
    [] id = "badmtime" -> Block_badmtime
    [] id = "badmode" -> Block_badmode
    [] id = "badtype" -> Block_badtype

\* fileobj.read(n) at position pos of the stream
RECURSIVE fileobj_read(_, _, _)
fileobj_read(blocks, pos, n) ==
  IF n <= 0 \/ pos >= BLOCKSIZE * Len(blocks) THEN <<>>
  ELSE LET k == pos \div BLOCKSIZE
           off == pos % BLOCKSIZE
           part == Slice(BlockBytes(blocks[k + 1]), off, off + n)
       IN part \o fileobj_read(blocks, pos + Len(part), n - Len(part))

\* bs.rstrip(chars)
rstrip(bs, chars) ==
  LET keep == {i \in 1 .. Len(bs) : bs[i] \notin chars}
  IN IF keep = {} THEN <<>>
     ELSE SubSeq(bs, 1, CHOOSE i \in keep : \A j \in keep : j <= i)

\* str.strip() of the white space int() ignores in front
RECURSIVE lstrip_space(_)
lstrip_space(bs) ==
  IF bs # <<>> /\ bs[1] = 32 THEN lstrip_space(Tail(bs)) ELSE bs

RECURSIVE OctalValue(_, _)
OctalValue(digits, acc) ==
  IF digits = <<>> THEN acc
  ELSE OctalValue(Tail(digits), acc * 8 + (digits[1] - 48))

\* a numeric field: field_bytes.decode('ascii').rstrip('\0 '), then
\* int(field_str, 8) or 0 for the empty string; ValueError gives INVALID
ParseOctal(field_bytes) ==
  LET field_str == lstrip_space(rstrip(field_bytes, {0, 32}))
  IN IF \E i \in 1 .. Len(field_bytes) : field_bytes[i] >= 128
     THEN [ok |-> FALSE, v |-> 0]
     ELSE IF field_str = <<>> THEN [ok |-> TRUE, v |-> 0]
     ELSE IF \A i \in 1 .. Len(field_str) : field_str[i] \in 48 .. 55
     THEN [ok |-> TRUE, v |-> OctalValue(field_str, 0)]
     ELSE [ok |-> FALSE, v |-> 0]

\* _parse_raw_tar_header(buf) for a 512-byte buf: the fields the reader
\* goes on to use.  raised holds when typeflag is not ASCII, which
\* decode('ascii') does not survive.
parse_raw_tar_header(buf) ==
  [name |-> rstrip(Slice(buf, 0, 100), {0}),
   mode |-> ParseOctal(Slice(buf, 100, 108)),
   size |-> ParseOctal(Slice(buf, 124, 136)),
   mtime |-> ParseOctal(Slice(buf, 136, 148)),
   typeflag |-> Slice(buf, 156, 157),
   raised |-> buf[157] >= 128]

\* all(b == 0 for b in bs), for bs of at most one block
AllZero(bs) == bs = Slice(Block_zero, 0, Len(bs))

\* blocks = (size + 511) // 512
BlocksOf(size) == (size + 511) \div 512

\* header_block = fileobj.read(512)
HeaderAt == fileobj_read(call.blocks, ret.pos, BLOCKSIZE)

\* the loop goes on to parse the block it has read
IsHeader(header_block) ==
  Len(header_block) = BLOCKSIZE /\ ~AllZero(header_block)

Reading == call.fn = "process_tar_blocks" /\ ret.fn = call.fn /\ ret.status = "reading"

\* offset = 0; last_longname = None
BlkStart ==
  /\ call.fn = "process_tar_blocks"
  /\ ret = NoCall
  /\ ret' = [fn |-> call.fn, status |-> "reading", offset |-> 0, pos |-> 0,
             last_longname |-> None, out |-> <<>>]
  /\ UNCHANGED <<call, archVars, txnVars, polyVars, orphVars>>

\* not header_block, a short block, or an all-zero block: break
BlkBreak ==
  /\ Reading
  /\ \E header_block \in {HeaderAt} :
        /\ ~IsHeader(header_block)
        /\ ret' = [ret EXCEPT !.status = "done",
                               !.pos = @ + Len(header_block)]
  /\ UNCHANGED <<call, archVars, txnVars, polyVars, orphVars>>

\* long_name_data.decode('utf-8') fails: of the bytes used here only 255 is
\* not ASCII, and it starts no UTF-8 sequence
Undecodable(bs) == \E i \in 1 .. Len(bs) : bs[i] >= 128

\* an exception leaves the loop: decode('ascii') of the typeflag, size + 511
\* on an INVALID size, fromtimestamp / format_mode on an INVALID value after
\* the File line has been printed, or decode('utf-8') of a long name
BlkRaise ==
  /\ Reading
  /\ \E header_block \in {HeaderAt} :
       /\ IsHeader(header_block)
       /\ \E raw \in {parse_raw_tar_header(header_block)} :
            LET printed == ~raw.raised /\ raw.size.ok
                is_long == raw.typeflag = <<76>>
                use_long == /\ ~is_long
                            /\ ret.last_longname # None
                            /\ ret.last_longname[1] # <<>>
                long_name_data ==
                  fileobj_read(call.blocks, ret.pos + BLOCKSIZE, raw.size.v)
                fields_ok == /\ ~raw.raised /\ raw.size.ok
                             /\ raw.mtime.ok /\ raw.mode.ok
            IN /\ ~fields_ok \/ (is_long /\ Undecodable(long_name_data))
               /\ ret' = [ret EXCEPT
                    !.status = "error",
                    !.pos = IF fields_ok THEN @ + BLOCKSIZE + Len(long_name_data)
                            ELSE @ + BLOCKSIZE,
                    !.last_longname = IF printed /\ use_long THEN None ELSE @,
                    !.out = IF printed
                            THEN Append(@, [offset |-> ret.offset,
                                            typeflag |-> raw.typeflag,
                                            name |-> raw.name,
                                            file_name |-> IF use_long
                                                          THEN ret.last_longname[1]
                                                          ELSE raw.name,
                                            size |-> raw.size.v])
                            ELSE @]
  /\ UNCHANGED <<call, archVars, txnVars, polyVars, orphVars>>

\* typeflag 'L': the payload is read as the long name, the padding skipped
BlkLongName ==
  /\ Reading
  /\ \E header_block \in {HeaderAt} :
       /\ IsHeader(header_block)
       /\ \E raw \in {parse_raw_tar_header(header_block)} :
            /\ ~raw.raised /\ raw.size.ok /\ raw.mtime.ok /\ raw.mode.ok
            /\ raw.typeflag = <<76>>
            /\ \E long_name_data \in
                   {fileobj_read(call.blocks, ret.pos + BLOCKSIZE, raw.size.v)} :
                 LET size == raw.size.v
                     blocks == BlocksOf(size)
                     padding == fileobj_read(call.blocks,
                                  ret.pos + BLOCKSIZE + Len(long_name_data),
                                  blocks * BLOCKSIZE - size)
                 IN /\ ~Undecodable(long_name_data)
                    /\ ret' = [ret EXCEPT
                         !.pos = @ + BLOCKSIZE + Len(long_name_data)
                                   + Len(padding),
                         !.offset = @ + BLOCKSIZE + blocks * BLOCKSIZE,
                         !.last_longname = Some(rstrip(long_name_data, {0})),
                         !.out = Append(@, [offset |-> ret.offset,
                                            typeflag |-> raw.typeflag,
                                            name |-> raw.name,
                                            file_name |-> raw.name,
                                            size |-> size])]
  /\ UNCHANGED <<call, archVars, txnVars, polyVars, orphVars>>

\* any other typeflag: the entry is named by the saved long name when there
\* is one (if last_longname:), and its data is skipped
BlkEntry ==
  /\ Reading
  /\ \E header_block \in {HeaderAt} :
       /\ IsHeader(header_block)
       /\ \E raw \in {parse_raw_tar_header(header_block)} :
            LET size == raw.size.v
                blocks == BlocksOf(size)
                use_long == /\ ret.last_longname # None
                            /\ ret.last_longname[1] # <<>>
                skipped == fileobj_read(call.blocks, ret.pos + BLOCKSIZE,
                                        blocks * BLOCKSIZE)
            IN /\ ~raw.raised /\ raw.size.ok /\ raw.mtime.ok /\ raw.mode.ok
               /\ raw.typeflag # <<76>>
               /\ ret' = [ret EXCEPT
                    !.pos = @ + BLOCKSIZE + Len(skipped),
                    !.offset = @ + BLOCKSIZE + blocks * BLOCKSIZE,
                    !.last_longname = IF use_long THEN None ELSE @,
                    !.out = Append(@, [offset |-> ret.offset,
                                       typeflag |-> raw.typeflag,
                                       name |-> raw.name,
                                       file_name |-> IF use_long
                                                     THEN ret.last_longname[1]
                                                     ELSE raw.name,
                                       size |-> size])]
  /\ UNCHANGED <<call, archVars, txnVars, polyVars, orphVars>>

BlocksInit ==
  /\ ArchIdle /\ fmt = "tar" /\ TxnIdle /\ PolyIdle /\ OrphIdle
  /\ \E bs \in SeqsUpTo(BlockNames, MaxBlocks) :
       call = [fn |-> "process_tar_blocks", blocks |-> bs]
  /\ ret = NoCall

BlocksNext ==
  \/ BlkStart
  \/ BlkBreak
  \/ BlkRaise
  \/ BlkLongName
  \/ BlkEntry

SpecBlocks == BlocksInit /\ [][BlocksNext]_vars

(***************************************************************************)
(* Properties of SpecBlocks                                                *)
(***************************************************************************)

Finished == ret.fn = "process_tar_blocks" /\ ret.status # "reading"

\* the block at which the loop stopped, and the one after it
StopBlock == fileobj_read(call.blocks, ret.offset, BLOCKSIZE)
AfterStopBlock == fileobj_read(call.blocks, ret.offset + BLOCKSIZE, BLOCKSIZE)

\* C22: the reader ends the archive only at the end of the stream or at an
\* all-zero block that is followed by a second all-zero block (or by the end
\* of the stream); a single all-zero block followed by a header does not
\* stop the scan.
C22_EndsAfterTwoZeroBlocks ==
  (ret.fn = "process_tar_blocks" /\ ret.status = "done") =>
    \/ Len(StopBlock) < BLOCKSIZE
    \/ /\ AllZero(StopBlock)
       /\ Len(AfterStopBlock) < BLOCKSIZE \/ AllZero(AfterStopBlock)

\* C23: a header block with an invalid field is skipped; the listing never
\* ends with an error.
C23_InvalidBlockNotFatal ==
  ret.fn = "process_tar_blocks" => ret.status # "error"

IsLongName(e) == e.typeflag = <<76>>

\* the payload of the 'L' header e, trailing NULs stripped
LongNameOf(e) ==
  rstrip(fileobj_read(call.blocks, e.offset + BLOCKSIZE, e.size), {0})

\* C24: a header that directly follows an 'L' header is named by that
\* header's payload (trailing NULs stripped) and is read 512 * ceil(s / 512)
\* bytes after the payload start; every other header is named by its own
\* name field.
C24_LongNameNamesNextEntry ==
  ret.fn = "process_tar_blocks" =>
    \A k \in 1 .. Len(ret.out) :
      LET e == ret.out[k]
      IN IF k > 1 /\ IsLongName(ret.out[k - 1])
         THEN /\ e.offset = ret.out[k - 1].offset + BLOCKSIZE
                            + BLOCKSIZE * ((ret.out[k - 1].size + BLOCKSIZE - 1) \div BLOCKSIZE)
              /\ ~IsLongName(e) => e.file_name = LongNameOf(ret.out[k - 1])
         ELSE e.file_name = e.name

(***************************************************************************)
(* Frame of replace and append (Spec).                                     *)
(***************************************************************************)
Occurrences(es, e) == Cardinality({i \in 1..Len(es) : es[i] = e})

StillPresent(pre, post, e) ==
  post.exists /\ Occurrences(post.entries, e) >= Occurrences(pre.entries, e)

\* The entries replace(path) hands to remove: the replace and append
\* namespaces carry no `recursive`, so removal takes the subtree.
UnderPath(name, path) ==
  name = path \/ StartsWith(name, RStripSlash(path) \o <<"/">>)

\* C26 as stated: after replace(path) or append(path) every entry of the
\* archive whose name differs from path -- entries named path + "/..."
\* included -- is still in the archive with the same payload and attributes.
C26_ReplaceFrame ==
  (last.op \in {"replace", "append"} /\ last.pre.exists) =>
     \A i \in 1..Len(last.pre.entries) :
        last.pre.entries[i].name # last.args.path =>
           StillPresent(last.pre, arc, last.pre.entries[i])

\* C26 amended: after replace(path) or append(path) with a non-empty path,
\* every entry whose name is neither path nor starts with
\* path.rstrip("/") + "/" is still in the archive with the same payload and
\* attributes.
C26_ReplaceFrameOutsideSubtree ==
  (last.op \in {"replace", "append"} /\ last.pre.exists /\ last.args.path # <<>>) =>
     \A i \in 1..Len(last.pre.entries) :
        ~UnderPath(last.pre.entries[i].name, last.args.path) =>
           StillPresent(last.pre, arc, last.pre.entries[i])

C26_Witness ==
  /\ last.op = "replace" /\ last.report = "ok" /\ last.args.path = P_adir
  /\ {P_ab, P_z} \subseteq NamesOf(last.pre.entries)
  /\ P_z \in NamesOf(arc.entries)
  /\ P_ab \notin NamesOf(arc.entries)
  /\ P_adir \in NamesOf(arc.entries)

(***************************************************************************)
(* Frame of modify (Spec).                                                 *)
(***************************************************************************)
NamedCount(es, n) == Cardinality(NamedIdx(es, n))

\* C27: modify(path) rewrites exactly one entry: the archive has as many
\* entries after as before, and every other entry -- other entries named
\* path included -- is still there with the same payload and attributes.
C27_ModifyRewritesOneEntry ==
  (last.op = "modify" /\ last.report = "ok") =>
     /\ Len(arc.entries) = Len(last.pre.entries)
     /\ \A i \in 1..Len(last.pre.entries) :
          LET e == last.pre.entries[i]
              rewritten == IF e.name = last.args.path THEN 1 ELSE 0
          IN  Occurrences(arc.entries, e) >= Occurrences(last.pre.entries, e) - rewritten

\* The same when the archive holds one entry named path.
C27_HoldsWithoutDuplicates ==
  (last.op = "modify" /\ last.report = "ok"
     /\ NamedCount(last.pre.entries, last.args.path) = 1) =>
     /\ Len(arc.entries) = Len(last.pre.entries)
     /\ \A i \in 1..Len(last.pre.entries) :
          Occurrences(arc.entries, last.pre.entries[i]) = Occurrences(last.pre.entries, last.pre.entries[i])

(***************************************************************************)
(* Permission bits through modify (SpecInfo).                              *)
(***************************************************************************)
ModifiedWithoutMode ==
  ret.fn \in {"modify", "tar_modify"} /\ call.args.mode = None

OrigPerm ==
  IF call.fn = "modify" THEN BitAnd(call.orig_info.external_attr.hi, PermMask)
  ELSE BitAnd(call.orig_member.mode, PermMask)

NewPerm ==
  IF ret.fn = "modify" THEN BitAnd(ret.info.external_attr.hi, PermMask)
  ELSE BitAnd(ret.info.mode, PermMask)

\* C28: modify without --mode leaves mode & 0o7777 as the original entry had
\* it, with the bits asked for by --setuid/--setgid/--sticky OR-ed in, on ZIP
\* and on TAR.
C28_ModifyKeepsPermissions ==
  ModifiedWithoutMode => NewPerm = apply_special_bits(OrigPerm, call.args)

\* The same for TAR alone.
C28_HoldsForTar ==
  (ModifiedWithoutMode /\ ret.fn = "tar_modify") =>
     NewPerm = apply_special_bits(OrigPerm, call.args)

\* ZIP with a special bit asked for: the rwx bits are the original's.
C28_ZipSpecialKeepsRwx ==
  (ModifiedWithoutMode /\ ret.fn = "modify" /\ WantsSpecial(call.args)
     /\ call.args.symlink = <<>>) =>
     BitAnd(NewPerm, 511) = BitAnd(OrigPerm, 511)

(***************************************************************************)
(* Special bits through ZIP add (SpecInfo).                                *)
(***************************************************************************)
WithoutFlags(args) == [args EXCEPT !.setuid = FALSE, !.setgid = FALSE, !.sticky = FALSE]

RequestedBits(args) == apply_special_bits(0, args)

\* C29: for ZIP add the mode written with --setuid/--setgid/--sticky is the
\* mode written without them OR 0o4000/0o2000/0o1000 for the flags asked for,
\* for every entry kind and every --mode, given or not.
C29_AddFlagsOnlyAddBits ==
  ret.fn = "add" =>
     ret.info.external_attr.hi =
        BitOr(ZipAddInfo(WithoutFlags(call.args)).external_attr.hi,
              RequestedBits(call.args))

\* The same for a regular file whose mode is absent or not 0.
C29_HoldsForRegularFile ==
  (ret.fn = "add" /\ call.args.symlink = <<>> /\ call.args.hardlink = <<>>
     /\ ~PathEndsWithSlash(call.args.path) /\ call.args.mode # Some(0)) =>
     ret.info.external_attr.hi =
        BitOr(ZipAddInfo(WithoutFlags(call.args)).external_attr.hi,
              RequestedBits(call.args))

(***************************************************************************)
(* The new extra field read back (SpecInfo).                               *)
(***************************************************************************)
WritesField == call.fn \in {"modify", "add_extra_field"} /\ ret # NoCall /\ ret.fn # "error"

WritesUx == WritesField /\ (call.args.uid # None \/ call.args.gid # None)

WritesUp == WritesField /\ call.args.unicodepath # None

Supplied(opt) == IF opt = None THEN Some(0) ELSE opt

FoundUx(extra) ==
  LET f == parse_extra_field(extra, 0, NoFields).ux_uid_gid
  IN f # None /\ f[1].version = Some(1)
       /\ f[1].uid = Supplied(call.args.uid) /\ f[1].gid = Supplied(call.args.gid)

FoundUp(extra) ==
  [version |-> Some(1), path |-> call.args.unicodepath]
     \in parse_extra_field(extra, 0, NoFields).Unicode_Path

\* C30: after --uid/--gid or --unicodepath on an entry whose extra bytes are
\* arbitrary, truncated or overrunning last field included, parsing the new
\* extra with _parse_extra_field finds the 0x7875 (0x7075) field just written
\* with the values supplied.
C30_NewFieldFound ==
  /\ WritesUx => (ret.fn # "raised" /\ FoundUx(ret.info.extra))
  /\ WritesUp => (ret.fn # "raised" /\ FoundUp(ret.info.extra))

\* The same for the extras the archive reader accepts: complete fields
\* followed by fewer than four stray bytes.
C30_HoldsForCompleteFields ==
  (WritesField /\ ret.fn # "raised" /\ DecodeExtraOk(IF call.fn = "modify" THEN call.orig_info.extra ELSE call.info.extra)) =>
     /\ WritesUx => FoundUx(ret.info.extra)
     /\ WritesUp => FoundUp(ret.info.extra)

\* modify never hands an overrunning extra to the writers
C30_ModifyRaisesOnOverrun ==
  (call.fn = "modify" /\ ret # NoCall /\ ret.fn # "error") =>
     (ret.fn = "raised" <=> ~DecodeExtraOk(call.orig_info.extra))

====
